---- MODULE Spec2Model ----
(***************************************************************************)
(* State-machine model of the React components of the repository:          *)
(* Counter, UserList, SearchFilter, ContactForm, TodoList, TimerComponent  *)
(* and AsyncDataFetcher.  Each component has its own variables and its own *)
(* specification (SpecCounter, SpecUserList, ...); a component that is not  *)
(* the subject of a specification stays in its freshly mounted state.       *)
(***************************************************************************)
EXTENDS Integers, Sequences, FiniteSets, TLC

VARIABLES
    lastEvent,      \* name of the handler / callback that ran last (observer)
    \* ---- Counter (src/src/components/medium/Counter.tsx)
    initialCount, min, max, step,   \* props
    count,                          \* useState(initialCount)
    countBefore,                    \* count before the last click (observer)
    \* ---- UserList (src/src/components/medium/Counter.tsx, second half)
    apiUrl,         \* prop
    users,          \* useState<User[]>([])
    ulLoading,      \* useState(true)
    ulError,        \* useState<string | null>(null)
    ulMounted,      \* the component is mounted
    ulReloading,    \* window.location.reload() was called, page not yet reloaded
    fetches,        \* one record per userService.fetchUsers call, with the
                    \* AbortController of the effect that made it
    ulShownFrom,    \* index of the fetch whose outcome was last stored (observer)
    ulSettled,      \* the last response delivered (observer)
    ulBefore,       \* users/error/loading/#fetches before the last step (observer)
    \* ---- SearchFilter (src/unnamed/part_011)
    debounceMs, maxResults,     \* props
    query, filters, results, sfLoading, sfError, searchCount,   \* useState
    sfTimers,       \* pending debounce timeouts, oldest first
    sfRequests,     \* searchAPI.searchProducts calls in flight, oldest first
    sfIssued,       \* number of searchProducts calls made so far
    sinceChange,    \* ms since query or filters last changed, up to debounceMs (observer)
    searchesSinceChange,    \* searchProducts calls since that change (observer)
    sfLastIssue,    \* the last searchProducts call (observer)
    sfCancelled,    \* timeouts cleared since a timeout last fired (observer)
    onResultsChangeArg,     \* argument of the last onResultsChange call (observer)
    sfBeforeClear,  \* the state a click on Clear All found, kept until the next
                    \* step (observer)
    sfStaleApplied, \* the response handled last was that of a request with a
                    \* newer request in flight (observer)
    sfCleared,      \* Clear All was clicked and no non-empty query has been
                    \* entered since (observer)
    \* ---- AsyncDataFetcher (training-components/hard/AsyncDataFetcher.test.tsx, 130-384)
    retryAttempts, returnEmpty,     \* props
    data, adfLoading, adfError, retryCount, lastFetch,  \* useState
    abortController,    \* useState: 0 for null, else the index of its request
    adfMounted,         \* the component is mounted
    adfRequests,        \* one record per fetchData call, with its AbortController
    adfTimers,          \* pending setTimeout(() => fetchData(true), ...) calls
    adfUserActed,       \* Refresh or Retry was clicked (observer)
    onDataLoadCalls, onErrorCalls,  \* number of calls of the callbacks (observer)
    \* ---- ContactForm (src/unnamed/part_009, 455-697)
    formData, errors, isSubmitting, isSubmitted,    \* useState
    cfTimers,       \* pending setTimeout callbacks of handleSubmit, with the
                    \* formData their closure captured
    cfClicked,      \* formData when submit was last clicked (observer)
    cfBefore,       \* errors, timers and onSubmit calls before the last step (observer)
    cfAccepted,     \* number of submits that started the timeout (observer)
    onSubmitCalls, onSubmitArg, \* calls of onSubmit and the last argument (observer)
    \* ---- TimerComponent (training-components/medium/ValidationForm.test.tsx, 625-753)
    initialTime, autoStart,             \* props
    timeLeft, isRunning, isComplete,    \* useState
    intervalRef,    \* Null, or the interval the effect has set
    tmStarts,       \* number of clicks on Start / Restart (observer)
    tmRun,          \* onTick arguments and onTimeUp calls since timeLeft was last
                    \* set to initialTime, and whether Pause was clicked (observer)
    tmBefore,       \* timeLeft and tmRun before the last step (observer)
    \* ---- TodoList (training-components/medium/ValidationForm.test.tsx, 457-623)
    initialTodos,                   \* prop
    todos, inputValue, filter,      \* useState
    now,            \* Date.now(), in ms
    tdBefore,       \* todos, inputValue, filter and stats before the last step (observer)
    tdCallback,     \* the calls of callback props the last step made, each with its
                    \* argument (observer)
    \* ---- ValidationForm (src/unnamed/part_007, 175-310)
    vfFormData, vfErrors, vfIsSubmitting,   \* useState: formData, errors, isSubmitting
    vfShownSubmitting,  \* some committed render had isSubmitting = true (observer)
    vfBefore,           \* formData before the last step (observer)
    vfOnSubmit,         \* arguments of the onSubmit calls of the last step (observer)
    vfOnValidationChange,    \* arguments of the onValidationChange calls of the
                            \* last step (observer)
    \* ---- ComplexStateManager (training-components/hard/ComplexStateManager.tsx, 20-101)
    csmState,       \* the AppState held by useReducer(appReducer, initialState)
    csmNow,         \* the last reading of Date.now(), in ms
    csmDispatches,  \* number of actions dispatched (observer)
    csmLastAction,  \* the action dispatched last (observer)
    csmBefore,       \* the AppState before the last dispatch (observer)
    \* ---- InfiniteScrollList (training-components/hard/ComplexStateManagerTypes.ts, 66-359)
    islItems,       \* useState items: the pages appended by setItems, in the
                    \* order of the calls
    islLoading, hasMore, currentPage, islError, visibleRange,   \* useState
    islClosure,     \* the state of the render whose handleScroll, observer
                    \* callback and loadItems are subscribed
    islScrollTimer, \* the timeout of debouncedScroll is pending
    islRequests,    \* the loadItems calls that went past their guard
    islBefore       \* items, currentPage, hasMore and the number of loads
                    \* before the last step (observer)

counterVars == <<initialCount, min, max, step, count, countBefore>>
userListVars == <<apiUrl, users, ulLoading, ulError, ulMounted, ulReloading,
                  fetches, ulShownFrom, ulSettled, ulBefore>>

searchFilterVars == <<debounceMs, maxResults, query, filters, results, sfLoading,
                      sfError, searchCount, sfTimers, sfRequests, sfIssued,
                      sinceChange, searchesSinceChange, sfLastIssue, sfCancelled,
                      onResultsChangeArg, sfBeforeClear, sfStaleApplied,
                      sfCleared>>

fetcherVars == <<retryAttempts, returnEmpty, data, adfLoading, adfError, retryCount,
                 lastFetch, abortController, adfMounted, adfRequests, adfTimers,
                 adfUserActed, onDataLoadCalls, onErrorCalls>>

contactFormVars == <<formData, errors, isSubmitting, isSubmitted, cfTimers, cfClicked,
                     cfBefore, cfAccepted, onSubmitCalls, onSubmitArg>>

timerVars == <<initialTime, autoStart, timeLeft, isRunning, isComplete, intervalRef,
               tmStarts, tmRun, tmBefore>>

todoListVars == <<initialTodos, todos, inputValue, filter, now, tdBefore, tdCallback>>

validationFormVars == <<vfFormData, vfErrors, vfIsSubmitting, vfShownSubmitting,
                        vfBefore, vfOnSubmit, vfOnValidationChange>>

stateManagerVars == <<csmState, csmNow, csmDispatches, csmLastAction, csmBefore>>

scrollListVars == <<islItems, islLoading, hasMore, currentPage, islError, visibleRange,
                    islClosure, islScrollTimer, islRequests, islBefore>>

vars == <<lastEvent, counterVars, userListVars, searchFilterVars, fetcherVars,
          contactFormVars, timerVars, todoListVars, validationFormVars,
          stateManagerVars,
          scrollListVars>>

notCounter ==
    <<userListVars, searchFilterVars, fetcherVars, contactFormVars, timerVars, todoListVars,
      validationFormVars,
      stateManagerVars,
      scrollListVars>>
notUserList ==
    <<counterVars, searchFilterVars, fetcherVars, contactFormVars, timerVars, todoListVars,
      validationFormVars,
      stateManagerVars,
      scrollListVars>>
notSearchFilter ==
    <<counterVars, userListVars, fetcherVars, contactFormVars, timerVars, todoListVars,
      validationFormVars,
      stateManagerVars,
      scrollListVars>>
notFetcher ==
    <<counterVars, userListVars, searchFilterVars, contactFormVars, timerVars, todoListVars,
      validationFormVars,
      stateManagerVars,
      scrollListVars>>
notContactForm ==
    <<counterVars, userListVars, searchFilterVars, fetcherVars, timerVars, todoListVars,
      validationFormVars,
      stateManagerVars,
      scrollListVars>>
notTimer ==
    <<counterVars, userListVars, searchFilterVars, fetcherVars, contactFormVars, todoListVars,
      validationFormVars,
      stateManagerVars,
      scrollListVars>>
notTodoList ==
    <<counterVars, userListVars, searchFilterVars, fetcherVars, contactFormVars, timerVars,
      validationFormVars,
      stateManagerVars,
      scrollListVars>>
notValidationForm ==
    <<counterVars, userListVars, searchFilterVars, fetcherVars, contactFormVars, timerVars,
      todoListVars,
      stateManagerVars,
      scrollListVars>>
notStateManager ==
    <<counterVars, userListVars, searchFilterVars, fetcherVars,
      contactFormVars, timerVars, todoListVars, validationFormVars,
      scrollListVars>>
notScrollList ==
    <<counterVars, userListVars, searchFilterVars, fetcherVars,
      contactFormVars, timerVars, todoListVars, validationFormVars, stateManagerVars>>

(***************************************************************************)
(* Helpers                                                                 *)
(***************************************************************************)
MathMin(a, b) == IF a <= b THEN a ELSE b
MathMax(a, b) == IF a >= b THEN a ELSE b

(***************************************************************************)
(* Counter                                                                 *)
(***************************************************************************)
\* Bounds of the props the model mounts the Counter with.
CounterRange == 2
MaxStep == 3
\* Cap on |count|: with step < 0 the clamps work the wrong way round and the
\* count is unbounded, so the model stops clicking beyond the cap.
CountCap == 5

CounterValues == (0 - CounterRange) .. CounterRange
StepValues == (0 - 1) .. MaxStep
WithinCap(c) == (0 - CountCap) <= c /\ c <= CountCap

CounterInit ==
    /\ initialCount \in CounterValues
    /\ min \in CounterValues
    /\ max \in CounterValues
    /\ step \in StepValues
    /\ count = initialCount
    /\ countBefore = initialCount

CounterIdle ==
    /\ initialCount = 0
    /\ min = 0 - CounterRange
    /\ max = CounterRange
    /\ step = 1
    /\ count = 0
    /\ countBefore = 0

\* Mutants of the updater functions (used to show the claims depend on them).
incrementNoClamp(prevCount) == prevCount + step
incrementClampLow(prevCount) == MathMax(prevCount + step, max)
decrementNoClamp(prevCount) == prevCount - step

\* setCount(prevCount => Math.min(prevCount + step, max))
incrementUpdater(prevCount) == MathMin(prevCount + step, max)

\* setCount(prevCount => Math.max(prevCount - step, min))
decrementUpdater(prevCount) == MathMax(prevCount - step, min)

\* Mutant: the increment button stays enabled at the maximum.
canIncrementUpToMax == count <= max

canIncrement == count < max
canDecrement == count > min

\* disabled={!canIncrement}, disabled={!canDecrement}; the Reset button has
\* no disabled attribute
incrementDisabled == ~canIncrement
decrementDisabled == ~canDecrement
resetDisabled == FALSE

\* click on "+": the button is disabled when !canIncrement
increment ==
    /\ canIncrement
    /\ WithinCap(incrementUpdater(count))
    /\ count' = incrementUpdater(count)
    /\ countBefore' = count
    /\ lastEvent' = "increment"
    /\ UNCHANGED <<initialCount, min, max, step>>
    /\ UNCHANGED notCounter

\* click on "-": the button is disabled when !canDecrement
decrement ==
    /\ canDecrement
    /\ WithinCap(decrementUpdater(count))
    /\ count' = decrementUpdater(count)
    /\ countBefore' = count
    /\ lastEvent' = "decrement"
    /\ UNCHANGED <<initialCount, min, max, step>>
    /\ UNCHANGED notCounter

\* click on "Reset": never disabled
reset ==
    /\ count' = initialCount
    /\ countBefore' = count
    /\ lastEvent' = "reset"
    /\ UNCHANGED <<initialCount, min, max, step>>
    /\ UNCHANGED notCounter

CounterNext == increment \/ decrement \/ reset

(***************************************************************************)
(* UserList                                                                *)
(***************************************************************************)
\* Bounds: number of distinct apiUrl values, fetchUsers calls in one run, and
\* length of a returned user array.
NumUrls == 2
MaxFetches == 3
MaxUsers == 2

Null == "null"
Urls == 1 .. NumUrls

\* The arrays userService.fetchUsers can resolve to: users 1..n.
UserArrays == { [i \in 1 .. n |-> i] : n \in 0 .. MaxUsers }

\* What userService.fetchUsers can reject with: an Error with a message, or a
\* value that is not an Error.
Rejections ==
    { [isError |-> TRUE, message |-> "HTTP error! status: 500", users |-> <<>>],
      [isError |-> TRUE, message |-> "Network Error", users |-> <<>>],
      [isError |-> FALSE, message |-> "not an Error", users |-> <<>>] }

\* What a promise of fetchUsers holds: the users it resolved with, or what it
\* rejected with; nothing yet while it is pending.
ResolvedWith(userData) == [isError |-> FALSE, message |-> "", users |-> userData]
NoValue == ResolvedWith(<<>>)

NoSettled == [fetch |-> 0, aborted |-> FALSE, value |-> NoValue]

UlSnapshot == [users |-> users, error |-> ulError, loading |-> ulLoading,
               nFetches |-> Len(fetches), apiUrl |-> apiUrl]

\* const controller = new AbortController(); ... userService.fetchUsers(apiUrl)
NewFetch(url) == [url |-> url, aborted |-> FALSE, status |-> "pending", value |-> NoValue]

\* Mutant: the handlers ignore controller.signal.aborted.
signalNeverAborted(i) == FALSE

\* controller.signal.aborted, for the controller of fetch i
signalAborted(i) == fetches[i].aborted

\* Mutant: the fallback text is stored for every rejection.
errorMessageAlwaysFallback(err) == "Failed to fetch users"

\* err instanceof Error ? err.message : 'Failed to fetch users'
errorMessageOf(err) == IF err.isError THEN err.message ELSE "Failed to fetch users"

\* controller.abort() in the effect's cleanup: the effect's fetch is the last one
abortCurrent ==
    [i \in 1 .. Len(fetches) |->
        IF i = Len(fetches) THEN [fetches[i] EXCEPT !.aborted = TRUE] ELSE fetches[i]]

\* State after the first render and its effect: setLoading(true), setError(null),
\* one fetch in flight.
UserListMounted(url) ==
    /\ apiUrl = url
    /\ users = <<>>
    /\ ulLoading = TRUE
    /\ ulError = Null
    /\ ulMounted = TRUE
    /\ ulReloading = FALSE
    /\ fetches = <<NewFetch(url)>>
    /\ ulShownFrom = 0
    /\ ulSettled = NoSettled
    /\ ulBefore = [users |-> <<>>, error |-> Null, loading |-> TRUE,
                   nFetches |-> 0, apiUrl |-> url]

UserListInit == \E url \in Urls : UserListMounted(url)

UserListIdle == UserListMounted(1)

\* The render: if (loading) ... else if (error) ... else the list.
UserListView ==
    IF ulLoading THEN "loading"
    ELSE IF ulError # Null THEN "error"
    ELSE "list"

showsLoading == ulLoading
showsError == ~ulLoading /\ ulError # Null
showsRetryButton == ~ulLoading /\ ulError # Null
showsUserList == ~ulLoading /\ ~(ulError # Null)
shownUserCount == Len(users)
shownUserCards == { users[i] : i \in 1 .. Len(users) }

\* await userService.fetchUsers(apiUrl) resolves with userData
fetchResolves(i, userData) ==
    /\ fetches[i].status = "pending"
    /\ fetches' = [fetches EXCEPT ![i].status = "resolved",
                                  ![i].value = ResolvedWith(userData)]
    /\ IF ~signalAborted(i)
         THEN /\ users' = userData
              /\ ulLoading' = FALSE
              /\ ulShownFrom' = i
         ELSE UNCHANGED <<users, ulLoading, ulShownFrom>>
    /\ ulSettled' = [fetch |-> i, aborted |-> fetches[i].aborted,
                     value |-> ResolvedWith(userData)]
    /\ ulBefore' = UlSnapshot
    /\ lastEvent' = "fetchResolved"
    /\ UNCHANGED <<apiUrl, ulError, ulMounted, ulReloading>>
    /\ UNCHANGED notUserList

\* await userService.fetchUsers(apiUrl) rejects with err
fetchRejects(i, err) ==
    /\ fetches[i].status = "pending"
    /\ fetches' = [fetches EXCEPT ![i].status = "rejected", ![i].value = err]
    /\ IF ~signalAborted(i)
         THEN /\ ulError' = errorMessageOf(err)
              /\ ulLoading' = FALSE
              /\ ulShownFrom' = i
         ELSE UNCHANGED <<ulError, ulLoading, ulShownFrom>>
    /\ ulSettled' = [fetch |-> i, aborted |-> fetches[i].aborted, value |-> err]
    /\ ulBefore' = UlSnapshot
    /\ lastEvent' = "fetchRejected"
    /\ UNCHANGED <<apiUrl, users, ulMounted, ulReloading>>
    /\ UNCHANGED notUserList

\* The parent renders the component with another apiUrl: the effect's cleanup
\* aborts the controller, the effect runs again.
changeApiUrl(url) ==
    /\ ulMounted /\ ~ulReloading
    /\ url # apiUrl
    /\ Len(fetches) < MaxFetches
    /\ apiUrl' = url
    /\ fetches' = Append(abortCurrent, NewFetch(url))
    /\ ulLoading' = TRUE
    /\ ulError' = Null
    /\ ulBefore' = UlSnapshot
    /\ lastEvent' = "apiUrlChange"
    /\ UNCHANGED <<users, ulMounted, ulReloading, ulShownFrom, ulSettled>>
    /\ UNCHANGED notUserList

\* The component unmounts: the effect's cleanup aborts the controller.
unmount ==
    /\ ulMounted /\ ~ulReloading
    /\ ulMounted' = FALSE
    /\ fetches' = abortCurrent
    /\ ulBefore' = UlSnapshot
    /\ lastEvent' = "unmount"
    /\ UNCHANGED <<apiUrl, users, ulLoading, ulError, ulReloading, ulShownFrom, ulSettled>>
    /\ UNCHANGED notUserList

\* Mutant: Retry leaves the error in place.
ulHandleRetryKeepsError ==
    /\ ulMounted /\ ~ulReloading
    /\ showsRetryButton
    /\ Len(fetches) < MaxFetches
    /\ ulError' = ulError
    /\ ulLoading' = TRUE
    /\ ulReloading' = TRUE
    /\ ulBefore' = UlSnapshot
    /\ lastEvent' = "retry"
    /\ UNCHANGED <<apiUrl, users, ulMounted, fetches, ulShownFrom, ulSettled>>
    /\ UNCHANGED notUserList

\* click on Retry (rendered in the error view only); the reload it asks for
\* starts one more fetch, which the model has to have room for
ulHandleRetry ==
    /\ ulMounted /\ ~ulReloading
    /\ showsRetryButton
    /\ Len(fetches) < MaxFetches
    /\ ulError' = Null
    /\ ulLoading' = TRUE
    /\ ulReloading' = TRUE
    /\ ulBefore' = UlSnapshot
    /\ lastEvent' = "retry"
    /\ UNCHANGED <<apiUrl, users, ulMounted, fetches, ulShownFrom, ulSettled>>
    /\ UNCHANGED notUserList

\* window.location.reload() takes effect: the page and its requests are gone,
\* the component mounts afresh with the same props.
pageReload ==
    /\ ulReloading
    /\ Len(fetches) < MaxFetches
    /\ ulReloading' = FALSE
    /\ users' = <<>>
    /\ ulLoading' = TRUE
    /\ ulError' = Null
    /\ fetches' = Append([i \in 1 .. Len(fetches) |->
                            [fetches[i] EXCEPT !.status =
                                IF @ = "pending" THEN "dropped" ELSE @]],
                         NewFetch(apiUrl))
    /\ ulShownFrom' = 0
    /\ ulBefore' = UlSnapshot
    /\ lastEvent' = "reload"
    /\ UNCHANGED <<apiUrl, ulMounted, ulSettled>>
    /\ UNCHANGED notUserList

\* The fetch of the mounted component settles
settleCurrentFetch ==
    \E i \in 1 .. Len(fetches) :
        /\ ulMounted /\ i = Len(fetches)
        /\ \/ \E userData \in UserArrays : fetchResolves(i, userData)
           \/ \E err \in Rejections : fetchRejects(i, err)

UserListNext ==
    \/ \E i \in 1 .. Len(fetches) : \E userData \in UserArrays : fetchResolves(i, userData)
    \/ \E i \in 1 .. Len(fetches) : \E err \in Rejections : fetchRejects(i, err)
    \/ \E url \in Urls : changeApiUrl(url)
    \/ unmount
    \/ ulHandleRetry
    \/ pageReload

(***************************************************************************)
(* SearchFilter (src/unnamed/part_011, lines 312-702)                       *)
(* Strings are sequences of one-character strings.  Time is counted in     *)
(* milliseconds and advances in steps of TickMs; a timer is due once its   *)
(* remaining time is <= 0.                                                  *)
(***************************************************************************)
\* Granularity of time, number of searchProducts calls in one run, and the
\* longest debounceMs prop, in ticks.
TickMs == 100
MaxSearches == 2
MaxDebounceTicks == 3

\* await new Promise(resolve => setTimeout(resolve, 300))
ApiDelayMs == 300
\* Math.random() < 0.1: throw new Error('Network error occurred')
NetworkErrorMessage == "Network error occurred"
\* maxResults = 10
DefaultMaxResults == 10

mockResults ==
    << [id |-> 1, category |-> "electronics", priceCents |-> 129999, inStock |-> TRUE,
        title |-> <<"L", "a", "p", "t", "o", "p", " ", "P", "r", "o">>,
        description |-> <<"H", "i", "g", "h", "-", "p", "e", "r", "f", "o", "r", "m", "a", "n", "c", "e", " ", "l", "a", "p", "t", "o", "p">>],
       [id |-> 2, category |-> "appliances", priceCents |-> 8999, inStock |-> FALSE,
        title |-> <<"C", "o", "f", "f", "e", "e", " ", "M", "a", "k", "e", "r">>,
        description |-> <<"A", "u", "t", "o", "m", "a", "t", "i", "c", " ", "c", "o", "f", "f", "e", "e", " ", "m", "a", "k", "e", "r">>],
       [id |-> 3, category |-> "sports", priceCents |-> 12999, inStock |-> TRUE,
        title |-> <<"R", "u", "n", "n", "i", "n", "g", " ", "S", "h", "o", "e", "s">>,
        description |-> <<"C", "o", "m", "f", "o", "r", "t", "a", "b", "l", "e", " ", "r", "u", "n", "n", "i", "n", "g", " ", "s", "h", "o", "e", "s">>],
       [id |-> 4, category |-> "electronics", priceCents |-> 7999, inStock |-> TRUE,
        title |-> <<"G", "a", "m", "i", "n", "g", " ", "M", "o", "u", "s", "e">>,
        description |-> <<"H", "i", "g", "h", "-", "p", "r", "e", "c", "i", "s", "i", "o", "n", " ", "g", "a", "m", "i", "n", "g", " ", "m", "o", "u", "s", "e">>],
       [id |-> 5, category |-> "sports", priceCents |-> 3999, inStock |-> TRUE,
        title |-> <<"Y", "o", "g", "a", " ", "M", "a", "t">>,
        description |-> <<"N", "o", "n", "-", "s", "l", "i", "p", " ", "y", "o", "g", "a", " ", "m", "a", "t">>] >>

ToLowerChar(c) ==
    CASE c = "A" -> "a"
      [] c = "C" -> "c"
      [] c = "G" -> "g"
      [] c = "H" -> "h"
      [] c = "L" -> "l"
      [] c = "M" -> "m"
      [] c = "N" -> "n"
      [] c = "P" -> "p"
      [] c = "R" -> "r"
      [] c = "S" -> "s"
      [] c = "Y" -> "y"
      [] OTHER -> c

RECURSIVE TrimStart(_)
TrimStart(str) ==
    IF str # <<>> /\ Head(str) = " " THEN TrimStart(Tail(str)) ELSE str

RECURSIVE TrimEnd(_)
TrimEnd(str) ==
    IF str # <<>> /\ str[Len(str)] = " "
      THEN TrimEnd(SubSeq(str, 1, Len(str) - 1))
      ELSE str

\* String.prototype.trim, for the space character
Trim(str) == TrimEnd(TrimStart(str))

\* String.prototype.toLowerCase
ToLowerCase(str) == [i \in 1 .. Len(str) |-> ToLowerChar(str[i])]

\* String.prototype.includes
Includes(str, sub) ==
    \E i \in 0 .. (Len(str) - Len(sub)) : SubSeq(str, i + 1, i + Len(sub)) = sub

\* Array.prototype.slice(0, n)
SliceTo(arr, n) == SubSeq(arr, 1, MathMin(n, Len(arr)))

\* The predicate of mockResults.filter in searchAPI.searchProducts (the prices
\* of mockResults are in cents, those of the filters in whole units)
matchesItem(item, q, f) ==
    /\ \/ q = <<>>
       \/ Includes(ToLowerCase(item.title), ToLowerCase(q))
       \/ Includes(ToLowerCase(item.description), ToLowerCase(q))
    /\ f.category = "" \/ item.category = f.category
    /\ item.priceCents >= f.minPrice * 100
    /\ item.priceCents <= f.maxPrice * 100
    /\ ~f.inStockOnly \/ item.inStock

\* searchAPI.searchProducts(query, filters), when it does not throw: the ids of
\* the matching items, in the order of mockResults
searchProducts(q, f) ==
    LET matching == SelectSeq(mockResults, LAMBDA item : matchesItem(item, q, f))
    IN  [i \in 1 .. Len(matching) |-> matching[i].id]

InitialFilters == [category |-> "", minPrice |-> 0, maxPrice |-> 10000, inStockOnly |-> FALSE]

\* What the user types into the search box in the model.
Queries ==
    { <<>>, <<" ">>, <<"m", "a">> }

\* The filter edits the user makes in the model: <<key, value>>.
FilterEdits ==
    { <<"category", "">>, <<"category", "sports">> }

DebounceValues == { k * TickMs : k \in 2 .. MaxDebounceTicks }

\* No searchProducts call / no onResultsChange call yet (item ids start at 1).
NoCall == [origin |-> "none", query |-> <<>>, filters |-> InitialFilters,
           sinceChange |-> 0, cancelled |-> 0]
NoResultsCall == <<0>>

NoClear == [query |-> <<>>, filters |-> InitialFilters, results |-> <<>>,
            error |-> Null, searchCount |-> 0, inFlight |-> 0]

SearchFilterMounted(d, m) ==
    /\ debounceMs = d
    /\ maxResults = m
    /\ query = <<>>
    /\ filters = InitialFilters
    /\ results = <<>>
    /\ sfLoading = FALSE
    /\ sfError = Null
    /\ searchCount = 0
    /\ sfTimers = << [query |-> <<>>, filters |-> InitialFilters,
                      remaining |-> d, current |-> TRUE] >>
    /\ sfRequests = <<>>
    /\ sfIssued = 0
    /\ sinceChange = 0
    /\ searchesSinceChange = 0
    /\ sfLastIssue = NoCall
    /\ sfCancelled = 0
    /\ onResultsChangeArg = NoResultsCall
    /\ sfBeforeClear = NoClear
    /\ sfCleared = FALSE
    /\ sfStaleApplied = FALSE

SearchFilterInit ==
    \E d \in DebounceValues : SearchFilterMounted(d, DefaultMaxResults)

SearchFilterIdle == SearchFilterMounted(3 * TickMs, DefaultMaxResults)

\* Mutant: the effect's cleanup does not clear its timeout.
clearDebounceTimerNot(timers) ==
    [i \in 1 .. Len(timers) |-> [timers[i] EXCEPT !.current = FALSE]]

\* return () => clearTimeout(timeoutId): cleanup of the debounce effect
clearDebounceTimer(timers) == SelectSeq(timers, LAMBDA t : ~t.current)

\* The debounce effect runs for a render with query q and filters f:
\* cleanup of the previous run, then setTimeout(..., debounceMs).
runDebounceEffect(q, f) ==
    Append(clearDebounceTimer(sfTimers),
           [query |-> q, filters |-> f, remaining |-> debounceMs, current |-> TRUE])

RemoveAt(arr, i) == SubSeq(arr, 1, i - 1) \o SubSeq(arr, i + 1, Len(arr))

\* Something scheduled is due: time cannot pass before it has run.
SomethingDue ==
    \/ \E i \in 1 .. Len(sfTimers) : sfTimers[i].remaining <= 0
    \/ \E i \in 1 .. Len(sfRequests) : sfRequests[i].remaining <= 0

\* Nothing scheduled is due earlier than at remaining time r.
Earliest(r) ==
    /\ \A i \in 1 .. Len(sfTimers) : sfTimers[i].remaining >= r
    /\ \A i \in 1 .. Len(sfRequests) : sfRequests[i].remaining >= r

sfObserveChange(changed) ==
    /\ sinceChange' = IF changed THEN 0 ELSE sinceChange
    /\ searchesSinceChange' = IF changed THEN 0 ELSE searchesSinceChange
    /\ sfCancelled' = MathMin(sfCancelled + Len(sfTimers) - Len(clearDebounceTimer(sfTimers)),
                              MaxSearches)

\* onChange of the search input: setQuery(e.target.value)
setQuery(q) ==
    /\ q # query
    /\ query' = q
    /\ sfTimers' = runDebounceEffect(q, filters)
    /\ sfObserveChange(TRUE)
    /\ lastEvent' = "queryChange"
    /\ sfBeforeClear' = NoClear
    /\ sfCleared' = (sfCleared /\ q = <<>>)
    /\ UNCHANGED <<debounceMs, maxResults, sfStaleApplied, filters,
                   results, sfLoading, sfError,
                   searchCount, sfRequests, sfIssued, sfLastIssue, onResultsChangeArg>>
    /\ UNCHANGED notSearchFilter

\* handleFilterChange(key, value): setFilters(prev => ({...prev, [key]: value}))
handleFilterChange(key, value) ==
    /\ filters[key] # value
    /\ filters' = [filters EXCEPT ![key] = value]
    /\ sfTimers' = runDebounceEffect(query, filters')
    /\ sfObserveChange(TRUE)
    /\ lastEvent' = "filterChange"
    /\ sfBeforeClear' = NoClear
    /\ UNCHANGED sfCleared
    /\ UNCHANGED <<debounceMs, maxResults, sfStaleApplied, query, results,
                   sfLoading, sfError,
                   searchCount, sfRequests, sfIssued, sfLastIssue, onResultsChangeArg>>
    /\ UNCHANGED notSearchFilter

\* Mutant: Clear All leaves the search counter as it is.
handleClearAllKeepsCount ==
    /\ query' = <<>>
    /\ filters' = InitialFilters
    /\ results' = <<>>
    /\ sfError' = Null
    /\ searchCount' = searchCount
    /\ sfBeforeClear' = [query |-> query, filters |-> filters, results |-> results,
                         error |-> sfError, searchCount |-> searchCount,
                         inFlight |-> Len(sfRequests)]
    /\ sfCleared' = TRUE
    /\ sfTimers' = runDebounceEffect(<<>>, InitialFilters)
    /\ sfObserveChange(query # <<>> \/ filters # InitialFilters)
    /\ lastEvent' = "clearAll"
    /\ UNCHANGED <<debounceMs, maxResults, sfStaleApplied, sfLoading, sfRequests, sfIssued,
                   sfLastIssue, onResultsChangeArg>>
    /\ UNCHANGED notSearchFilter

\* click on Clear All
handleClearAll ==
    /\ query' = <<>>
    /\ filters' = InitialFilters
    /\ results' = <<>>
    /\ sfError' = Null
    /\ searchCount' = 0
    /\ sfBeforeClear' = [query |-> query, filters |-> filters, results |-> results,
                         error |-> sfError, searchCount |-> searchCount,
                         inFlight |-> Len(sfRequests)]
    /\ sfCleared' = TRUE
    /\ sfTimers' = runDebounceEffect(<<>>, InitialFilters)
    /\ sfObserveChange(query # <<>> \/ filters # InitialFilters)
    /\ lastEvent' = "clearAll"
    /\ UNCHANGED <<debounceMs, maxResults, sfStaleApplied, sfLoading, sfRequests, sfIssued,
                   sfLastIssue, onResultsChangeArg>>
    /\ UNCHANGED notSearchFilter

\* debouncedSearch(searchQuery, searchFilters) up to its await
debouncedSearch(searchQuery, searchFilters, origin) ==
    IF Trim(searchQuery) = <<>>
      THEN /\ results' = <<>>
           /\ sfLoading' = FALSE
           /\ sfLastIssue' = NoCall
           /\ UNCHANGED <<sfError, sfRequests, sfIssued, searchesSinceChange>>
      ELSE /\ sfIssued < MaxSearches
           /\ sfLoading' = TRUE
           /\ sfError' = Null
           /\ sfRequests' = Append(sfRequests,
                 [query |-> searchQuery, filters |-> searchFilters,
                  remaining |-> ApiDelayMs])
           /\ sfIssued' = sfIssued + 1
           /\ sfLastIssue' = [origin |-> origin, query |-> searchQuery,
                              filters |-> searchFilters, sinceChange |-> sinceChange,
                              cancelled |-> sfCancelled]
           /\ searchesSinceChange' =
                 IF origin = "debounce" THEN searchesSinceChange + 1
                 ELSE searchesSinceChange
           /\ UNCHANGED results

\* The debounce timeout fires: debouncedSearch(query, filters) of its render
debounceTimerFires(i) ==
    /\ sfTimers[i].remaining <= 0
    /\ Earliest(sfTimers[i].remaining)
    /\ sfTimers' = RemoveAt(sfTimers, i)
    /\ debouncedSearch(sfTimers[i].query, sfTimers[i].filters, "debounce")
    /\ sfCancelled' = 0
    /\ lastEvent' = "debounceFired"
    /\ sfBeforeClear' = NoClear
    /\ UNCHANGED sfCleared
    /\ UNCHANGED <<debounceMs, maxResults, sfStaleApplied, query, filters,
                   searchCount, sinceChange,
                   onResultsChangeArg>>
    /\ UNCHANGED notSearchFilter

\* click on Retry Search (rendered while error is set)
sfHandleRetry ==
    /\ sfError # Null
    /\ debouncedSearch(query, filters, "retry")
    /\ lastEvent' = "retrySearch"
    /\ sfBeforeClear' = NoClear
    /\ UNCHANGED sfCleared
    /\ UNCHANGED <<debounceMs, maxResults, sfStaleApplied, query, filters,
                   searchCount, sinceChange,
                   sfTimers, sfCancelled, onResultsChangeArg>>
    /\ UNCHANGED notSearchFilter

\* searchAPI.searchProducts returns: the rest of the try block and finally
searchResolves(i) ==
    /\ sfRequests[i].remaining <= 0
    /\ Earliest(sfRequests[i].remaining)
    /\ LET limitedResults ==
             SliceTo(searchProducts(sfRequests[i].query, sfRequests[i].filters), maxResults)
       IN  /\ results' = limitedResults
           /\ onResultsChangeArg' = limitedResults
    /\ searchCount' = searchCount + 1
    /\ sfLoading' = FALSE
    /\ sfStaleApplied' = (i < Len(sfRequests))
    /\ sfRequests' = RemoveAt(sfRequests, i)
    /\ lastEvent' = "searchResolved"
    /\ sfBeforeClear' = NoClear
    /\ UNCHANGED sfCleared
    /\ UNCHANGED <<debounceMs, maxResults, query, filters, sfError,
                   sfTimers, sfIssued,
                   sinceChange, searchesSinceChange, sfLastIssue, sfCancelled>>
    /\ UNCHANGED notSearchFilter

\* searchAPI.searchProducts throws the network error: catch and finally
searchRejects(i) ==
    /\ sfRequests[i].remaining <= 0
    /\ Earliest(sfRequests[i].remaining)
    /\ sfError' = NetworkErrorMessage
    /\ sfLoading' = FALSE
    /\ sfStaleApplied' = (i < Len(sfRequests))
    /\ sfRequests' = RemoveAt(sfRequests, i)
    /\ lastEvent' = "searchRejected"
    /\ sfBeforeClear' = NoClear
    /\ UNCHANGED sfCleared
    /\ UNCHANGED <<debounceMs, maxResults, query, filters, results,
                   searchCount, sfTimers,
                   sfIssued, sinceChange, searchesSinceChange, sfLastIssue, sfCancelled,
                   onResultsChangeArg>>
    /\ UNCHANGED notSearchFilter

\* TickMs milliseconds pass
sfTick ==
    /\ ~SomethingDue
    /\ sfTimers # <<>> \/ sfRequests # <<>> \/ sinceChange < debounceMs
    /\ sfTimers' = [i \in 1 .. Len(sfTimers) |->
                      [sfTimers[i] EXCEPT !.remaining = @ - TickMs]]
    /\ sfRequests' = [i \in 1 .. Len(sfRequests) |->
                      [sfRequests[i] EXCEPT !.remaining = @ - TickMs]]
    /\ sinceChange' = MathMin(sinceChange + TickMs, debounceMs)
    /\ lastEvent' = "tick"
    /\ sfBeforeClear' = NoClear
    /\ UNCHANGED sfCleared
    /\ UNCHANGED <<debounceMs, maxResults, sfStaleApplied, query, filters,
                   results, sfLoading, sfError,
                   searchCount, sfIssued, searchesSinceChange, sfLastIssue, sfCancelled,
                   onResultsChangeArg>>
    /\ UNCHANGED notSearchFilter

SearchFilterNext ==
    \/ \E q \in Queries : setQuery(q)
    \/ \E e \in FilterEdits : handleFilterChange(e[1], e[2])
    \/ handleClearAll
    \/ \E i \in 1 .. Len(sfTimers) : debounceTimerFires(i)
    \/ sfHandleRetry
    \/ \E i \in 1 .. Len(sfRequests) : searchResolves(i)
    \/ \E i \in 1 .. Len(sfRequests) : searchRejects(i)
    \/ sfTick

(***************************************************************************)
(* AsyncDataFetcher                                                        *)
(* fetchData is a useCallback closure: it reads the retryCount and the     *)
(* abortController of the render that created it, and the timeout it       *)
(* schedules calls that same closure again.  Requests and timeouts          *)
(* therefore carry the captured values.                                     *)
(***************************************************************************)
\* Bounds: fetchData calls in one run, and the largest retryAttempts prop.
MaxRequests == 4
MaxRetryAttempts == 3

\* setTimeout(() => fetchData(true), 1000 * Math.pow(2, retryCount))
BackoffBaseMs == 1000

NetworkFailure == "Network error: Failed to fetch data"
RequestAborted == "Request was aborted"

\* ids of mockUsers
MockUserIds == <<1, 2, 3, 4, 5>>

\* The useEffect with dependency [abortController]: when the state changes
\* from controller `old`, the cleanup of the previous run aborts `old`.
abortOnChange(reqs, old, new) ==
    IF old # 0 /\ old # new
      THEN [reqs EXCEPT ![old].aborted = TRUE]
      ELSE reqs

\* if (abortController) abortController.abort(), on the captured controller
abortCaptured(reqs, cap) ==
    IF cap # 0 THEN [reqs EXCEPT ![cap].aborted = TRUE] ELSE reqs

\* if (!isRetry && retryCount < retryAttempts)
shouldRetry(isRetry, capRetryCount) == ~isRetry /\ capRetryCount < retryAttempts

\* 1000 * Math.pow(2, retryCount)
backoffDelay(capRetryCount) == BackoffBaseMs * (2 ^ capRetryCount)

\* fetchData(isRetry) up to its await, run from a closure with the captured
\* retryCount and abortController; root is the request whose failure scheduled
\* this call (0 for a call that is not an automatic retry).
fetchData(isRetry, capRetryCount, capAbort, root, delay) ==
    /\ Len(adfRequests) < MaxRequests
    /\ LET c == Len(adfRequests) + 1
           started == Append(abortCaptured(adfRequests, capAbort),
                             [isRetry |-> isRetry, capRetryCount |-> capRetryCount,
                              capAbort |-> capAbort, root |-> root, delay |-> delay,
                              aborted |-> FALSE, status |-> "pending"])
       IN  IF adfMounted
             THEN /\ adfRequests' = abortOnChange(started, abortController, c)
                  /\ abortController' = c
                  /\ adfLoading' = TRUE
                  /\ adfError' = Null
             ELSE /\ adfRequests' = started
                  /\ UNCHANGED <<abortController, adfLoading, adfError>>

\* State after the first render and its effects: fetchData() is in flight.
FetcherMounted(attempts, empty) ==
    /\ retryAttempts = attempts
    /\ returnEmpty = empty
    /\ data = <<>>
    /\ adfLoading = TRUE
    /\ adfError = Null
    /\ retryCount = 0
    /\ lastFetch = FALSE
    /\ abortController = 1
    /\ adfMounted = TRUE
    /\ adfRequests = << [isRetry |-> FALSE, capRetryCount |-> 0, capAbort |-> 0,
                         root |-> 0, delay |-> 0, aborted |-> FALSE,
                         status |-> "pending"] >>
    /\ adfTimers = <<>>
    /\ adfUserActed = FALSE
    /\ onDataLoadCalls = 0
    /\ onErrorCalls = 0

FetcherInit ==
    \E attempts \in 0 .. MaxRetryAttempts : \E empty \in BOOLEAN :
        FetcherMounted(attempts, empty)

FetcherIdle == FetcherMounted(MaxRetryAttempts, FALSE)

\* finally { setLoading(false); setAbortController(null); }
fetchDataFinally(reqs) ==
    IF adfMounted
      THEN /\ adfLoading' = FALSE
           /\ abortController' = 0
           /\ adfRequests' = abortOnChange(reqs, abortController, 0)
      ELSE /\ adfRequests' = reqs
           /\ UNCHANGED <<adfLoading, abortController>>

\* mockFetch resolves: the rest of the try block, then finally
fetchSucceeds(c) ==
    /\ adfRequests[c].status = "pending"
    /\ ~adfRequests[c].aborted
    /\ IF adfMounted
         THEN /\ data' = (IF returnEmpty THEN <<>> ELSE MockUserIds)
              /\ lastFetch' = TRUE
              /\ retryCount' = 0
         ELSE UNCHANGED <<data, lastFetch, retryCount>>
    /\ onDataLoadCalls' = onDataLoadCalls + 1
    /\ fetchDataFinally([adfRequests EXCEPT ![c].status = "succeeded"])
    /\ lastEvent' = "fetchSucceeded"
    /\ UNCHANGED <<retryAttempts, returnEmpty, adfError, adfMounted, adfTimers,
                   adfUserActed, onErrorCalls>>
    /\ UNCHANGED notFetcher

\* mockFetch throws (the signal was aborted, or the simulated network failure):
\* the catch block, then finally.  Both errors have the name "Error", so the
\* test err.name === "AbortError" is false for them.
fetchFails(c) ==
    /\ adfRequests[c].status = "pending"
    /\ LET message == IF adfRequests[c].aborted THEN RequestAborted ELSE NetworkFailure
           retry == shouldRetry(adfRequests[c].isRetry, adfRequests[c].capRetryCount)
       IN  /\ adfError' = (IF adfMounted THEN message ELSE adfError)
           /\ onErrorCalls' = onErrorCalls + 1
           /\ retryCount' = (IF retry /\ adfMounted THEN retryCount + 1 ELSE retryCount)
           /\ adfTimers' =
                 IF retry
                   THEN Append(adfTimers,
                               [delay |-> backoffDelay(adfRequests[c].capRetryCount),
                                capRetryCount |-> adfRequests[c].capRetryCount,
                                capAbort |-> adfRequests[c].capAbort,
                                root |-> (IF adfRequests[c].root = 0 THEN c
                                          ELSE adfRequests[c].root)])
                   ELSE adfTimers
           /\ fetchDataFinally([adfRequests EXCEPT ![c].status =
                                  IF adfRequests[c].aborted THEN "aborted" ELSE "failed"])
    /\ lastEvent' = "fetchFailed"
    /\ UNCHANGED <<retryAttempts, returnEmpty, data, lastFetch, adfMounted,
                   adfUserActed, onDataLoadCalls>>
    /\ UNCHANGED notFetcher

\* A scheduled timeout runs: fetchData(true) of the closure that scheduled it
retryTimerFires(t) ==
    /\ fetchData(TRUE, adfTimers[t].capRetryCount, adfTimers[t].capAbort,
                 adfTimers[t].root, adfTimers[t].delay)
    /\ adfTimers' = RemoveAt(adfTimers, t)
    /\ lastEvent' = "retryTimer"
    /\ UNCHANGED <<retryAttempts, returnEmpty, data, retryCount, lastFetch, adfMounted,
                   adfUserActed, onDataLoadCalls, onErrorCalls>>
    /\ UNCHANGED notFetcher

\* click on Refresh (disabled while loading)
handleRefresh ==
    /\ adfMounted
    /\ ~adfLoading
    /\ fetchData(FALSE, retryCount, abortController, 0, 0)
    /\ adfUserActed' = TRUE
    /\ lastEvent' = "refresh"
    /\ UNCHANGED <<retryAttempts, returnEmpty, data, retryCount, lastFetch, adfMounted,
                   adfTimers, onDataLoadCalls, onErrorCalls>>
    /\ UNCHANGED notFetcher

\* The Refresh button: disabled={loading}, {loading ? "Loading..." : "Refresh"}
refreshDisabled == adfLoading
refreshLabel == IF adfLoading THEN "Loading..." ELSE "Refresh"

\* getStatusMessage, as the pieces of the text; filterRole is null, so
\* filteredData is data
getStatusMessage ==
    IF adfLoading THEN <<"Loading...">>
    ELSE IF adfError # Null THEN <<"Error: ", adfError>>
    ELSE IF Len(data) = 0 THEN <<"No data available">>
    ELSE <<"Loaded ", Len(data), " users">>

\* The Retry button is rendered when error && retryCount >= retryAttempts.
showsManualRetry == adfError # Null /\ retryCount >= retryAttempts

\* click on Retry: setRetryCount(0); fetchData() of the current render
adfHandleRetry ==
    /\ adfMounted
    /\ showsManualRetry
    /\ retryCount' = 0
    /\ fetchData(FALSE, retryCount, abortController, 0, 0)
    /\ adfUserActed' = TRUE
    /\ lastEvent' = "manualRetry"
    /\ UNCHANGED <<retryAttempts, returnEmpty, data, lastFetch, adfMounted,
                   adfTimers, onDataLoadCalls, onErrorCalls>>
    /\ UNCHANGED notFetcher

\* The component unmounts: the cleanup of the [abortController] effect runs;
\* scheduled timeouts are not cleared.
adfUnmount ==
    /\ adfMounted
    /\ adfMounted' = FALSE
    /\ adfRequests' = abortCaptured(adfRequests, abortController)
    /\ lastEvent' = "fetcherUnmount"
    /\ UNCHANGED <<retryAttempts, returnEmpty, data, adfLoading, adfError, retryCount,
                   lastFetch, abortController, adfTimers, adfUserActed,
                   onDataLoadCalls, onErrorCalls>>
    /\ UNCHANGED notFetcher

FetcherNext ==
    \/ \E c \in 1 .. Len(adfRequests) : fetchSucceeds(c)
    \/ \E c \in 1 .. Len(adfRequests) : fetchFails(c)
    \/ \E t \in 1 .. Len(adfTimers) : retryTimerFires(t)
    \/ handleRefresh
    \/ adfHandleRetry
    \/ adfUnmount

(***************************************************************************)
(* ContactForm                                                             *)
(***************************************************************************)
\* Bound: number of submits that pass validation in one run.
MaxSubmissions == 2

\* formData.name.trim().length < 2
MinNameLength == 2
\* formData.message.trim().length < 10
MinMessageLength == 10
\* setTimeout(..., 1000)
SubmitDelayMs == 1000

EmptyForm == [name |-> <<>>, email |-> <<>>, message |-> <<>>]
NoErrors == [name |-> Null, email |-> Null, message |-> Null]

\* What the user enters into the fields in the model.
NameValues ==
    { <<>>, <<" ">>, <<" ", "a">>, <<"a", "b">> }
EmailValues ==
    { <<>>, <<" ">>, <<"a", "@", "b">>, <<"a", "@", "b", ".", "c">>, <<" ", "a", "@", "b", ".", "c">> }
MessageValues ==
    { <<>>, <<" ">>, <<"a", "b", "c", "d", "e", "f", "g", "h", "i">>,
      <<" ", "a", "b", "c", "d", "e", "f", "g", "h", "i", " ">>,
      <<"a", "b", "c", "d", "e", "f", "g", "h", "i", "j">> }

FieldValues(field) ==
    CASE field = "name" -> NameValues
      [] field = "email" -> EmailValues
      [] field = "message" -> MessageValues

\* \S
NonSpace(c) == c # " "

\* /\S+@\S+\.\S+/.test(str): an "@" with a non-space before it, then one or
\* more non-spaces, a ".", and a non-space after it
emailPattern(str) ==
    \E a \in 2 .. Len(str) : \E d \in (a + 2) .. (Len(str) - 1) :
        /\ str[a] = "@"
        /\ NonSpace(str[a - 1])
        /\ \A k \in (a + 1) .. (d - 1) : NonSpace(str[k])
        /\ str[d] = "."
        /\ NonSpace(str[d + 1])

\* Mutant: the name is validated without trimming.
nameErrorUntrimmed(value) ==
    IF value = <<>> THEN "Name is required"
    ELSE IF Len(value) < MinNameLength THEN "Name must be at least 2 characters"
    ELSE Null

\* validateForm, the name rule
nameError(value) ==
    IF Trim(value) = <<>> THEN "Name is required"
    ELSE IF Len(Trim(value)) < MinNameLength THEN "Name must be at least 2 characters"
    ELSE Null

\* validateForm, the email rule
emailError(value) ==
    IF Trim(value) = <<>> THEN "Email is required"
    ELSE IF ~emailPattern(value) THEN "Please enter a valid email address"
    ELSE Null

\* validateForm, the message rule
messageError(value) ==
    IF Trim(value) = <<>> THEN "Message is required"
    ELSE IF Len(Trim(value)) < MinMessageLength
      THEN "Message must be at least 10 characters"
    ELSE Null

validateForm ==
    [name |-> nameError(formData.name),
     email |-> emailError(formData.email),
     message |-> messageError(formData.message)]

\* Object.keys(newErrors).length === 0
hasNoErrors(newErrors) ==
    newErrors.name = Null /\ newErrors.email = Null /\ newErrors.message = Null

CfSnapshot == [errors |-> errors, timers |-> Len(cfTimers), calls |-> onSubmitCalls,
               isSubmitting |-> isSubmitting]

ContactFormInit ==
    /\ formData = EmptyForm
    /\ errors = NoErrors
    /\ isSubmitting = FALSE
    /\ isSubmitted = FALSE
    /\ cfTimers = <<>>
    /\ cfClicked = EmptyForm
    /\ cfBefore = [errors |-> NoErrors, timers |-> 0, calls |-> 0, isSubmitting |-> FALSE]
    /\ cfAccepted = 0
    /\ onSubmitCalls = 0
    /\ onSubmitArg = EmptyForm

ContactFormIdle == ContactFormInit

\* The form is rendered unless isSubmitted; its submit button is
\* disabled={isSubmitting}.
showsForm == ~isSubmitted
showsSuccess == isSubmitted
submitDisabled == isSubmitting
submitLabel == IF isSubmitting THEN "Sending..." ELSE "Send Message"

\* A submit event can be raised: the form is shown and its button is enabled
canSubmit == showsForm /\ ~submitDisabled

\* Mutant: the timeout callback reads the formData of the latest render.
latestFormData(timer) == formData

\* The formData the timeout callback sees: that of the render whose
\* handleSubmit scheduled it
closureFormData(timer) == timer.formData

\* onChange of a field: handleInputChange
handleInputChange(field, value) ==
    /\ showsForm
    /\ value # formData[field]
    /\ formData' = [formData EXCEPT ![field] = value]
    /\ errors' = IF errors[field] # Null THEN [errors EXCEPT ![field] = Null] ELSE errors
    /\ cfBefore' = CfSnapshot
    /\ lastEvent' = "inputChange"
    /\ UNCHANGED <<isSubmitting, isSubmitted, cfTimers, cfClicked, cfAccepted,
                   onSubmitCalls, onSubmitArg>>
    /\ UNCHANGED notContactForm

\* submit of the form: handleSubmit
handleSubmit ==
    /\ canSubmit
    /\ LET newErrors == validateForm
       IN  /\ errors' = newErrors
           /\ IF hasNoErrors(newErrors)
                THEN /\ cfAccepted < MaxSubmissions
                     /\ isSubmitting' = TRUE
                     /\ cfTimers' = Append(cfTimers,
                           [delay |-> SubmitDelayMs, formData |-> formData])
                     /\ cfAccepted' = cfAccepted + 1
                ELSE UNCHANGED <<isSubmitting, cfTimers, cfAccepted>>
    /\ cfClicked' = formData
    /\ cfBefore' = CfSnapshot
    /\ lastEvent' = "submit"
    /\ UNCHANGED <<formData, isSubmitted, onSubmitCalls, onSubmitArg>>
    /\ UNCHANGED notContactForm

\* The timeout of handleSubmit runs
submitTimerFires(t) ==
    /\ isSubmitting' = FALSE
    /\ isSubmitted' = TRUE
    /\ onSubmitCalls' = onSubmitCalls + 1
    /\ onSubmitArg' = closureFormData(cfTimers[t])
    /\ formData' = EmptyForm
    /\ cfTimers' = RemoveAt(cfTimers, t)
    /\ cfBefore' = CfSnapshot
    /\ lastEvent' = "submitDone"
    /\ UNCHANGED <<errors, cfClicked, cfAccepted>>
    /\ UNCHANGED notContactForm

\* click on Send Another Message (rendered in the success view)
sendAnotherMessage ==
    /\ showsSuccess
    /\ isSubmitted' = FALSE
    /\ cfBefore' = CfSnapshot
    /\ lastEvent' = "sendAnother"
    /\ UNCHANGED <<formData, errors, isSubmitting, cfTimers, cfClicked, cfAccepted,
                   onSubmitCalls, onSubmitArg>>
    /\ UNCHANGED notContactForm

ContactFormNext ==
    \/ \E field \in {"name", "email", "message"} :
          \E value \in FieldValues(field) : handleInputChange(field, value)
    \/ handleSubmit
    \/ \E t \in 1 .. Len(cfTimers) : submitTimerFires(t)
    \/ sendAnotherMessage

(***************************************************************************)
(* TimerComponent                                                          *)
(***************************************************************************)
\* Bounds: the largest initialTime prop, and the clicks on Start / Restart in
\* one run of the model.
MaxInitialTime == 3
MaxStarts == 2

NewRun == [ticks |-> <<>>, timeUps |-> 0, paused |-> FALSE]
TmSnapshot == [timeLeft |-> timeLeft, run |-> tmRun]

\* Mutant: the interval is kept whenever there is time left.
runIntervalEffectAlways(running, time) ==
    IF time > 0 THEN "interval" ELSE Null

\* The interval effect, run with the state of a render: it sets an interval
\* when isRunning && timeLeft > 0 and clears the one it had otherwise.
runIntervalEffect(running, time) ==
    IF running /\ time > 0 THEN "interval" ELSE Null

TimerMounted(time, auto) ==
    /\ initialTime = time
    /\ autoStart = auto
    /\ timeLeft = time
    /\ isRunning = auto
    /\ isComplete = FALSE
    /\ intervalRef = runIntervalEffect(auto, time)
    /\ tmStarts = 0
    /\ tmRun = NewRun
    /\ tmBefore = [timeLeft |-> time, run |-> NewRun]

TimerInit == \E time \in 0 .. MaxInitialTime : \E auto \in BOOLEAN : TimerMounted(time, auto)

TimerIdle == TimerMounted(1, FALSE)

getTimerStatus ==
    IF isComplete THEN "completed" ELSE IF isRunning THEN "running" ELSE "paused"

showsStartButton == ~isRunning /\ ~isComplete
showsRestartButton == ~isRunning /\ isComplete
showsPauseButton == isRunning

\* Mutant: the countdown ends one second early.
timeIsUpEarly(newTime) == newTime <= 1

\* Mutant: the countdown only ends below zero.
timeIsUpBelowZero(newTime) == newTime < 0

\* if (newTime <= 0)
timeIsUp(newTime) == newTime <= 0

\* The interval callback: the updater passed to setTimeLeft
intervalTick ==
    /\ intervalRef # Null
    /\ LET newTime == timeLeft - 1
           done == timeIsUp(newTime)
       IN  /\ timeLeft' = newTime
           /\ isRunning' = (IF done THEN FALSE ELSE isRunning)
           /\ isComplete' = (IF done THEN TRUE ELSE isComplete)
           /\ tmRun' = [tmRun EXCEPT !.ticks = Append(@, newTime),
                                     !.timeUps = IF done THEN @ + 1 ELSE @]
    /\ intervalRef' = runIntervalEffect(isRunning', timeLeft')
    /\ tmBefore' = TmSnapshot
    /\ lastEvent' = "tick"
    /\ UNCHANGED <<initialTime, autoStart, tmStarts>>
    /\ UNCHANGED notTimer

\* click on Start or Restart
handleStart ==
    /\ showsStartButton \/ showsRestartButton
    /\ tmStarts < MaxStarts
    /\ tmStarts' = tmStarts + 1
    /\ IF isComplete
         THEN /\ timeLeft' = initialTime
              /\ isComplete' = FALSE
              /\ tmRun' = NewRun
         ELSE UNCHANGED <<timeLeft, isComplete, tmRun>>
    /\ isRunning' = TRUE
    /\ intervalRef' = runIntervalEffect(isRunning', timeLeft')
    /\ tmBefore' = TmSnapshot
    /\ lastEvent' = "start"
    /\ UNCHANGED <<initialTime, autoStart>>
    /\ UNCHANGED notTimer

\* click on Pause
handlePause ==
    /\ showsPauseButton
    /\ isRunning' = FALSE
    /\ intervalRef' = runIntervalEffect(isRunning', timeLeft)
    /\ tmRun' = [tmRun EXCEPT !.paused = TRUE]
    /\ tmBefore' = TmSnapshot
    /\ lastEvent' = "pause"
    /\ UNCHANGED <<initialTime, autoStart, timeLeft, isComplete, tmStarts>>
    /\ UNCHANGED notTimer

\* click on Reset
handleReset ==
    /\ isRunning' = FALSE
    /\ timeLeft' = initialTime
    /\ isComplete' = FALSE
    /\ intervalRef' = runIntervalEffect(isRunning', timeLeft')
    /\ tmRun' = NewRun
    /\ tmBefore' = TmSnapshot
    /\ lastEvent' = "reset"
    /\ UNCHANGED <<initialTime, autoStart, tmStarts>>
    /\ UNCHANGED notTimer

TimerNext ==
    \/ intervalTick
    \/ handleStart
    \/ handlePause
    \/ handleReset

(***************************************************************************)
(* TodoList                                                                *)
(***************************************************************************)
\* Bounds: the length of the todo list, and the milliseconds Date.now()
\* advances in one run of the model.
MaxTodos == 2
MaxClockTicks == 1

\* Ids are the decimal strings of integers (Date.now().toString(), and "1",
\* "2" in initialTodos); the model keeps the integer, which toString maps
\* one-to-one.
InitialTodoArrays ==
    { <<>>,
      <<[id |-> 1, text |-> <<"x">>, completed |-> FALSE, createdAt |-> 1],
        [id |-> 2, text |-> <<"y">>, completed |-> TRUE, createdAt |-> 2]>> }

\* What the user types into the input in the model.
TodoInputs == { <<>>, <<" ">>, <<"a">>, <<" ", "b", " ">> }

Filters == {"all", "active", "completed"}

NoCallback == <<>>

\* todos.filter(...) of the render
filteredTodos ==
    SelectSeq(todos, LAMBDA todo :
        CASE filter = "active" -> ~todo.completed
          [] filter = "completed" -> todo.completed
          [] OTHER -> TRUE)

\* Mutant: the statistics are taken from the filtered list.
getStatsOfFiltered ==
    LET total == Len(filteredTodos)
        completed == Len(SelectSeq(filteredTodos, LAMBDA todo : todo.completed))
    IN  [total |-> total, completed |-> completed, active |-> total - completed]

getStats ==
    LET total == Len(todos)
        completed == Len(SelectSeq(todos, LAMBDA todo : todo.completed))
    IN  [total |-> total, completed |-> completed, active |-> total - completed]

\* The render reads stats.total, stats.active and stats.completed.
stats == getStats

addButtonDisabled == Trim(inputValue) = <<>>

TdSnapshot == [todos |-> todos, inputValue |-> inputValue, filter |-> filter,
               stats |-> stats]

TodoListMounted(initial, clock) ==
    /\ initialTodos = initial
    /\ todos = initial
    /\ inputValue = <<>>
    /\ filter = "all"
    /\ now = clock
    /\ tdBefore = [todos |-> initial, inputValue |-> <<>>, filter |-> "all",
                   stats |-> [total |-> 0, completed |-> 0, active |-> 0]]
    /\ tdCallback = NoCallback

\* Date.now() at mount is above the ids of initialTodos.
TodoListInit == \E initial \in InitialTodoArrays : TodoListMounted(initial, 10)

TodoListIdle == TodoListMounted(<<>>, 10)

\* onChange of the input
setInputValue(value) ==
    /\ value # inputValue
    /\ inputValue' = value
    /\ tdBefore' = TdSnapshot
    /\ tdCallback' = NoCallback
    /\ lastEvent' = "setInputValue"
    /\ UNCHANGED <<initialTodos, todos, filter, now>>
    /\ UNCHANGED notTodoList

\* Mutant: the text of the new todo is the input as typed.
newTodoUntrimmed(value, clock) ==
    [id |-> clock, text |-> value, completed |-> FALSE, createdAt |-> clock]

\* const newTodo: Todo = { id: Date.now().toString(), text: inputValue.trim(), ... }
newTodoOf(value, clock) ==
    [id |-> clock, text |-> Trim(value), completed |-> FALSE, createdAt |-> clock]

\* click on Add (enabled only with a non-blank input), or Enter in the input
addTodo ==
    /\ IF Trim(inputValue) # <<>>
         THEN LET newTodo == newTodoOf(inputValue, now)
              IN  /\ Len(todos) < MaxTodos
                  /\ todos' = Append(todos, newTodo)
                  /\ inputValue' = <<>>
                  /\ tdCallback' = <<[name |-> "onTodoAdd", arg |-> newTodo]>>
         ELSE /\ UNCHANGED <<todos, inputValue>>
              /\ tdCallback' = NoCallback
    /\ tdBefore' = TdSnapshot
    /\ lastEvent' = "addTodo"
    /\ UNCHANGED <<initialTodos, filter, now>>
    /\ UNCHANGED notTodoList

\* onChange of the checkbox of a shown todo
toggleTodo(id) ==
    /\ \E i \in DOMAIN filteredTodos : filteredTodos[i].id = id
    /\ todos' = [i \in DOMAIN todos |->
                    IF todos[i].id = id
                      THEN [todos[i] EXCEPT !.completed = ~todos[i].completed]
                      ELSE todos[i]]
    /\ tdCallback' = <<[name |-> "onTodoToggle", arg |-> id]>>
    /\ tdBefore' = TdSnapshot
    /\ lastEvent' = "toggleTodo"
    /\ UNCHANGED <<initialTodos, inputValue, filter, now>>
    /\ UNCHANGED notTodoList

\* click on the delete button of a shown todo
deleteTodo(id) ==
    /\ \E i \in DOMAIN filteredTodos : filteredTodos[i].id = id
    /\ todos' = SelectSeq(todos, LAMBDA todo : todo.id # id)
    /\ tdCallback' = <<[name |-> "onTodoDelete", arg |-> id]>>
    /\ tdBefore' = TdSnapshot
    /\ lastEvent' = "deleteTodo"
    /\ UNCHANGED <<initialTodos, inputValue, filter, now>>
    /\ UNCHANGED notTodoList

\* click on one of the filter buttons
setFilter(f) ==
    /\ filter' = f
    /\ tdBefore' = TdSnapshot
    /\ tdCallback' = NoCallback
    /\ lastEvent' = "setFilter"
    /\ UNCHANGED <<initialTodos, todos, inputValue, now>>
    /\ UNCHANGED notTodoList

\* A millisecond passes
clockAdvances ==
    /\ now < 10 + MaxClockTicks
    /\ now' = now + 1
    /\ UNCHANGED <<lastEvent, initialTodos, todos, inputValue, filter, tdBefore, tdCallback>>
    /\ UNCHANGED notTodoList

TodoIds == { todos[i].id : i \in DOMAIN todos }

TodoListNext ==
    \/ \E value \in TodoInputs : setInputValue(value)
    \/ addTodo
    \/ \E id \in TodoIds : toggleTodo(id)
    \/ \E id \in TodoIds : deleteTodo(id)
    \/ \E f \in Filters : setFilter(f)
    \/ clockAdvances

(***************************************************************************)
(* ValidationForm                                                          *)
(***************************************************************************)
\* password.length < 6
MinPasswordLength == 6

VfEmptyForm == [email |-> <<>>, password |-> <<>>, confirmPassword |-> <<>>]
VfNoErrors == [email |-> Null, password |-> Null, confirmPassword |-> Null]

\* What the user enters into the fields in the model.
VfEmailValues ==
    { <<>>, <<"a", "@", "b">>, <<"a", "@", "b", ".", "c">>, <<"a", " ", "@", "b", ".", "c">>, <<"a", "@", ".", "c">> }
VfPasswordValues ==
    { <<>>, <<"a", "b", "c", "d", "e">>, <<"a", "b", "c", "d", "e", "f">> }

VfFieldValues(field) ==
    IF field = "email" THEN VfEmailValues ELSE VfPasswordValues

\* [^\s@]
NotSpaceNorAt(c) == c # " " /\ c # "@"

\* /^[^\s@]+@[^\s@]+\.[^\s@]+$/.test(email): one "@", no white space, a
\* non-empty part before the "@", and after it a "." with a non-empty part
\* on each side
emailRegexTest(email) ==
    \E a \in 2 .. Len(email) :
        /\ email[a] = "@"
        /\ \A k \in (DOMAIN email) \ {a} : NotSpaceNorAt(email[k])
        /\ \E d \in (a + 2) .. (Len(email) - 1) : email[d] = "."

validateEmail(email) ==
    IF email = <<>> THEN "Email is required"
    ELSE IF ~emailRegexTest(email) THEN "Please enter a valid email address"
    ELSE Null

validatePassword(password) ==
    IF password = <<>> THEN "Password is required"
    ELSE IF Len(password) < MinPasswordLength
      THEN "Password must be at least 6 characters long"
    ELSE Null

\* Mutant: the confirmation is only required to be non-empty.
validateConfirmPasswordPresent(password, confirmPassword) ==
    IF confirmPassword = <<>> THEN "Please confirm your password" ELSE Null

validateConfirmPassword(password, confirmPassword) ==
    IF confirmPassword = <<>> THEN "Please confirm your password"
    ELSE IF password # confirmPassword THEN "Passwords do not match"
    ELSE Null

vfValidateForm(fd) ==
    [email |-> validateEmail(fd.email),
     password |-> validatePassword(fd.password),
     confirmPassword |-> validateConfirmPassword(fd.password, fd.confirmPassword)]

\* Object.values(errors).every(error => !error)
vfIsValid(errs) ==
    errs.email = Null /\ errs.password = Null /\ errs.confirmPassword = Null

\* The state a render sees after one event handler queued these values with
\* the setter of one useState: the updates of a handler are applied together,
\* in order, before the next render.
commitBatch(current, updates) ==
    IF updates = <<>> THEN current ELSE updates[Len(updates)]

vfSubmitDisabled == vfIsSubmitting
vfSubmitLabel == IF vfIsSubmitting THEN "Submitting..." ELSE "Submit"

ValidationFormInit ==
    /\ vfFormData = VfEmptyForm
    /\ vfErrors = VfNoErrors
    /\ vfIsSubmitting = FALSE
    /\ vfShownSubmitting = FALSE
    /\ vfBefore = VfEmptyForm
    /\ vfOnSubmit = <<>>
    /\ vfOnValidationChange = <<>>

ValidationFormIdle == ValidationFormInit

\* onChange of a field: handleInputChange(field, value)
vfHandleInputChange(field, value) ==
    /\ value # vfFormData[field]
    /\ LET newFormData == [vfFormData EXCEPT ![field] = value]
           newErrors == vfValidateForm(newFormData)
       IN  /\ vfFormData' = newFormData
           /\ vfErrors' = newErrors
           /\ vfOnValidationChange' = <<vfIsValid(newErrors)>>
    /\ vfOnSubmit' = <<>>
    /\ vfBefore' = vfFormData
    /\ vfShownSubmitting' = (vfShownSubmitting \/ vfIsSubmitting)
    /\ lastEvent' = "vfInputChange"
    /\ UNCHANGED vfIsSubmitting
    /\ UNCHANGED notValidationForm

\* submit of the form: handleSubmit, which has no await between
\* setIsSubmitting(true) and setIsSubmitting(false)
vfHandleSubmit ==
    /\ ~vfSubmitDisabled
    /\ LET validationErrors == vfValidateForm(vfFormData)
       IN  /\ vfErrors' = validationErrors
           /\ vfOnSubmit' = IF vfIsValid(validationErrors) THEN <<vfFormData>> ELSE <<>>
    /\ vfIsSubmitting' = commitBatch(vfIsSubmitting, <<TRUE, FALSE>>)
    /\ vfShownSubmitting' = (vfShownSubmitting \/ vfIsSubmitting')
    /\ vfOnValidationChange' = <<>>
    /\ vfBefore' = vfFormData
    /\ lastEvent' = "vfSubmit"
    /\ UNCHANGED vfFormData
    /\ UNCHANGED notValidationForm

ValidationFormNext ==
    \/ \E field \in {"email", "password", "confirmPassword"} :
          \E value \in VfFieldValues(field) : vfHandleInputChange(field, value)
    \/ vfHandleSubmit

(***************************************************************************)
(* ComplexStateManager: appReducer                                         *)
(***************************************************************************)
\* .slice(0, 50) of ADD_NOTIFICATION
MaxNotifications == 50
\* Number of actions the model dispatches.
MaxDispatches == 3

\* user: null is the empty tuple, a user the tuple of that user.
NoUser == <<>>

initialState ==
    [user |-> NoUser,
     notifications |-> <<>>,
     settings |-> [debugMode |-> FALSE, apiUrl |-> "https://api.example.com",
                   retryAttempts |-> 3],
     ui |-> [loading |-> FALSE, error |-> Null, activeModal |-> Null]]

\* The user actions.login dispatches.
AdminUser ==
    [id |-> "1", name |-> "Admin User", email |-> "admin@example.com", role |-> "admin",
     preferences |-> [theme |-> "dark", notifications |-> TRUE, language |-> "en"]]

\* { ...base, ...partial }
Spread(base, partial) ==
    [k \in DOMAIN base \cup DOMAIN partial |->
        IF k \in DOMAIN partial THEN partial[k] ELSE base[k]]

\* Payloads of the actions the model dispatches.
NotificationPayloads ==
    { [type |-> "info", message |-> "Test notification", read |-> FALSE],
      [type |-> "error", message |-> "Failed", read |-> TRUE] }
SettingsPayloads == { [debugMode |-> TRUE], [retryAttempts |-> 5] }
PreferencesPayloads == { [theme |-> "light"], [theme |-> "dark", language |-> "fr"] }
ErrorPayloads == { Null, "Invalid credentials" }
ModalPayloads == { Null, "settings" }

\* { ...action.payload, id: Date.now().toString(), timestamp: new Date(),
\*   read: false }; the id is kept as the clock reading it is the decimal
\* string of.
newNotification(payload, clock) ==
    Spread(payload, [id |-> clock, timestamp |-> clock, read |-> FALSE])

\* Mutant: the list is not cut.
prependUncapped(notification, notifications) == <<notification>> \o notifications

\* [newNotification, ...state.notifications].slice(0, 50)
prependCapped(notification, notifications) ==
    SliceTo(<<notification>> \o notifications, MaxNotifications)

\* appReducer(state, action), with the clock reading Date.now() returns
appReducer(state, action, clock) ==
    CASE action.type = "SET_USER" ->
           [state EXCEPT !.user = <<action.payload>>, !.ui.error = Null]
      [] action.type = "CLEAR_USER" ->
           [state EXCEPT !.user = NoUser, !.notifications = <<>>]
      [] action.type = "ADD_NOTIFICATION" ->
           [state EXCEPT !.notifications =
               prependCapped(newNotification(action.payload, clock), @)]
      [] action.type = "MARK_NOTIFICATION_READ" ->
           [state EXCEPT !.notifications =
               [i \in DOMAIN @ |->
                   IF @[i].id = action.payload THEN [@[i] EXCEPT !.read = TRUE]
                   ELSE @[i]]]
      [] action.type = "CLEAR_NOTIFICATIONS" ->
           [state EXCEPT !.notifications = <<>>]
      [] action.type = "UPDATE_SETTINGS" ->
           [state EXCEPT !.settings = Spread(@, action.payload)]
      [] action.type = "SET_LOADING" ->
           [state EXCEPT !.ui.loading = action.payload]
      [] action.type = "SET_ERROR" ->
           [state EXCEPT !.ui.error = action.payload]
      [] action.type = "SET_ACTIVE_MODAL" ->
           [state EXCEPT !.ui.activeModal = action.payload]
      [] action.type = "UPDATE_USER_PREFERENCES" ->
           IF state.user = NoUser THEN state
           ELSE [state EXCEPT !.user =
                   << [@[1] EXCEPT !.preferences = Spread(@, action.payload)] >>]
      [] OTHER -> state

\* The state n clicks on Add Notification, one per millisecond, lead to.
StateManagerAfterAdds(n) ==
    /\ csmState = [initialState EXCEPT !.notifications =
                     [i \in 1 .. n |->
                        newNotification([type |-> "info", message |-> "Test notification",
                                         read |-> FALSE], 1000 + (n - i))]]
    /\ csmNow = 1000 + n
    /\ csmDispatches = 0
    /\ csmLastAction = [type |-> "INIT"]
    /\ csmBefore = initialState

\* The reducer is applied to a list that is empty, short, one below the cap
\* or at the cap.
InitialCounts == {0, 1, MaxNotifications - 1, MaxNotifications}

StateManagerInit == \E n \in InitialCounts : StateManagerAfterAdds(n)

StateManagerIdle == StateManagerAfterAdds(0)

\* dispatch(action)
dispatch(action, clock) ==
    /\ csmDispatches < MaxDispatches
    /\ csmState' = appReducer(csmState, action, clock)
    /\ csmNow' = clock
    /\ csmDispatches' = csmDispatches + 1
    /\ csmLastAction' = action
    /\ csmBefore' = csmState
    /\ lastEvent' = action.type
    /\ UNCHANGED notStateManager

\* The ids MARK_NOTIFICATION_READ is dispatched with: those of the newest and
\* of the oldest notification, and one no notification has.
MarkableIds ==
    {0} \cup (IF csmState.notifications = <<>> THEN {}
              ELSE {csmState.notifications[1].id,
                    csmState.notifications[Len(csmState.notifications)].id})

StateManagerNext ==
    \/ dispatch([type |-> "SET_USER", payload |-> AdminUser], csmNow)
    \/ dispatch([type |-> "CLEAR_USER"], csmNow)
    \/ \E payload \in NotificationPayloads : \E clock \in {csmNow, csmNow + 1} :
          dispatch([type |-> "ADD_NOTIFICATION", payload |-> payload], clock)
    \/ \E id \in MarkableIds :
          dispatch([type |-> "MARK_NOTIFICATION_READ", payload |-> id], csmNow)
    \/ dispatch([type |-> "CLEAR_NOTIFICATIONS"], csmNow)
    \/ \E payload \in SettingsPayloads :
          dispatch([type |-> "UPDATE_SETTINGS", payload |-> payload], csmNow)
    \/ \E payload \in BOOLEAN :
          dispatch([type |-> "SET_LOADING", payload |-> payload], csmNow)
    \/ \E payload \in ErrorPayloads :
          dispatch([type |-> "SET_ERROR", payload |-> payload], csmNow)
    \/ \E payload \in ModalPayloads :
          dispatch([type |-> "SET_ACTIVE_MODAL", payload |-> payload], csmNow)
    \/ \E payload \in PreferencesPayloads :
          dispatch([type |-> "UPDATE_USER_PREFERENCES", payload |-> payload], csmNow)

(***************************************************************************)
(* InfiniteScrollList                                                      *)
(***************************************************************************)
\* Number of loadItems calls that get past their guard in the model.
MaxLoads == 3
\* itemsPerPage = 20, itemHeight = 120, the 400px of the scroll container,
\* and the five items of buffer around the visible ones
ItemsPerPage == 20
ItemHeight == 120
ContainerHeight == 400
VisibleBuffer == 5
\* container.scrollTop when handleScroll runs, in the model
ScrollTops == {0, 2400}

CeilDiv(a, b) == (a + b - 1) \div b

\* processedItems.length (no filterCategory): every page appended holds
\* itemsPerPage items
processedLength(pages) == Len(pages) * ItemsPerPage

\* What the functions made by a render see of its state.
RenderOf(pages, loading, more, page) ==
    [loading |-> loading, hasMore |-> more, currentPage |-> page,
     length |-> processedLength(pages)]

IslSnapshot ==
    [items |-> islItems, currentPage |-> currentPage, hasMore |-> hasMore,
     loads |-> Len(islRequests)]

\* State after the first render and its effects: loadItems(0) has called
\* setLoading(true) and awaits the page; the scroll listener and the observer
\* hold the functions of the first render.
ScrollListMounted ==
    /\ islItems = <<>>
    /\ islLoading = TRUE
    /\ hasMore = TRUE
    /\ currentPage = 0
    /\ islError = Null
    /\ visibleRange = [start |-> 0, end |-> 50]
    /\ islClosure = RenderOf(<<>>, FALSE, TRUE, 0)
    /\ islScrollTimer = FALSE
    /\ islRequests = << [page |-> 0, status |-> "pending"] >>
    /\ islBefore = [items |-> <<>>, currentPage |-> 0, hasMore |-> TRUE, loads |-> 0]

ScrollListIdle == ScrollListMounted

\* loadItems(page) of the subscribed render, up to its await; requested is
\* whether the caller calls it at all
loadItems(requested, page) ==
    IF requested /\ ~islClosure.loading
      THEN /\ Len(islRequests) < MaxLoads
           /\ islLoading' = TRUE
           /\ islError' = Null
           /\ islRequests' = Append(islRequests, [page |-> page, status |-> "pending"])
      ELSE UNCHANGED <<islLoading, islError, islRequests>>

\* calculateVisibleRange() of the subscribed render
calculateVisibleRange(scrollTop) ==
    LET start == scrollTop \div ItemHeight
        visibleCount == CeilDiv(ContainerHeight, ItemHeight)
        end == MathMin(start + visibleCount + VisibleBuffer, islClosure.length)
    IN  [start |-> MathMax(0, start - VisibleBuffer), end |-> end]

\* The passive effects of the latest render run: the scroll listener and the
\* observer of the render before are removed (the pending timeout cleared)
\* and those of the latest render installed.
islCommitEffects ==
    /\ islClosure # RenderOf(islItems, islLoading, hasMore, currentPage)
    /\ islClosure' = RenderOf(islItems, islLoading, hasMore, currentPage)
    /\ islScrollTimer' = FALSE
    /\ islBefore' = IslSnapshot
    /\ lastEvent' = "effects"
    /\ UNCHANGED <<islItems, islLoading, hasMore, currentPage, islError, visibleRange,
                   islRequests>>
    /\ UNCHANGED notScrollList

\* A scroll event: debouncedScroll restarts the 10 ms timeout
debouncedScroll ==
    /\ islScrollTimer' = TRUE
    /\ islBefore' = IslSnapshot
    /\ lastEvent' = "scroll"
    /\ UNCHANGED <<islItems, islLoading, hasMore, currentPage, islError, visibleRange,
                   islClosure, islRequests>>
    /\ UNCHANGED notScrollList

\* The timeout fires: handleScroll() of the subscribed render
handleScroll(scrollTop, nearBottom) ==
    /\ islScrollTimer
    /\ islScrollTimer' = FALSE
    /\ loadItems(nearBottom /\ islClosure.hasMore /\ ~islClosure.loading,
                 islClosure.currentPage + 1)
    /\ visibleRange' = calculateVisibleRange(scrollTop)
    /\ islBefore' = IslSnapshot
    /\ lastEvent' = "handleScroll"
    /\ UNCHANGED <<islItems, hasMore, currentPage, islClosure>>
    /\ UNCHANGED notScrollList

\* The IntersectionObserver callback of the subscribed render
observerCallback(isIntersecting) ==
    /\ loadItems(isIntersecting /\ islClosure.hasMore /\ ~islClosure.loading,
                 islClosure.currentPage + 1)
    /\ islBefore' = IslSnapshot
    /\ lastEvent' = "observer"
    /\ UNCHANGED <<islItems, hasMore, currentPage, visibleRange, islClosure,
                   islScrollTimer>>
    /\ UNCHANGED notScrollList

\* The page arrives (onLoadMore resolves, or the mock data is generated): the
\* rest of the try block and finally; empty is newItems.length === 0
loadResolves(i, empty) ==
    /\ islRequests[i].status = "pending"
    /\ IF empty
         THEN /\ hasMore' = FALSE
              /\ UNCHANGED <<islItems, currentPage>>
         ELSE /\ islItems' = Append(islItems, islRequests[i].page)
              /\ currentPage' = islRequests[i].page
              /\ UNCHANGED hasMore
    /\ islLoading' = FALSE
    /\ islRequests' = [islRequests EXCEPT ![i].status =
                          IF empty THEN "empty" ELSE "loaded"]
    /\ islBefore' = IslSnapshot
    /\ lastEvent' = "loadResolved"
    /\ UNCHANGED <<islError, visibleRange, islClosure, islScrollTimer>>
    /\ UNCHANGED notScrollList

\* onLoadMore rejects: catch and finally
loadRejects(i) ==
    /\ islRequests[i].status = "pending"
    /\ islError' = "Failed to load items"
    /\ islLoading' = FALSE
    /\ islRequests' = [islRequests EXCEPT ![i].status = "failed"]
    /\ islBefore' = IslSnapshot
    /\ lastEvent' = "loadRejected"
    /\ UNCHANGED <<islItems, hasMore, currentPage, visibleRange, islClosure,
                   islScrollTimer>>
    /\ UNCHANGED notScrollList

ScrollListNext ==
    \/ islCommitEffects
    \/ debouncedScroll
    \/ \E scrollTop \in ScrollTops : \E nearBottom \in BOOLEAN :
          handleScroll(scrollTop, nearBottom)
    \/ \E isIntersecting \in BOOLEAN : observerCallback(isIntersecting)
    \/ \E i \in 1 .. Len(islRequests) : \E empty \in BOOLEAN : loadResolves(i, empty)
    \/ \E i \in 1 .. Len(islRequests) : loadRejects(i)

(***************************************************************************)
(* Specifications: one per component                                       *)
(***************************************************************************)
\* Every component but the named one is in its freshly mounted state.
IdleExcept(component) ==
    /\ (IF component = "Counter" THEN TRUE ELSE CounterIdle)
    /\ (IF component = "UserList" THEN TRUE ELSE UserListIdle)
    /\ (IF component = "SearchFilter" THEN TRUE ELSE SearchFilterIdle)
    /\ (IF component = "AsyncDataFetcher" THEN TRUE ELSE FetcherIdle)
    /\ (IF component = "ContactForm" THEN TRUE ELSE ContactFormIdle)
    /\ (IF component = "TimerComponent" THEN TRUE ELSE TimerIdle)
    /\ (IF component = "TodoList" THEN TRUE ELSE TodoListIdle)
    /\ (IF component = "ValidationForm" THEN TRUE ELSE ValidationFormIdle)
    /\ (IF component = "ComplexStateManager" THEN TRUE ELSE StateManagerIdle)
    /\ (IF component = "InfiniteScrollList" THEN TRUE ELSE ScrollListIdle)

InitCounter == lastEvent = "mount" /\ CounterInit /\ IdleExcept("Counter")

SpecCounter == InitCounter /\ [][CounterNext]_vars

InitUserList == lastEvent = "mount" /\ UserListInit /\ IdleExcept("UserList")

SpecUserList == InitUserList /\ [][UserListNext]_vars

\* The browser carries out a reload that was asked for, and the request of
\* the mounted component settles (userService.fetchUsers resolves or rejects).
SpecUserListFair ==
    /\ SpecUserList
    /\ WF_vars(pageReload)
    /\ WF_vars(settleCurrentFetch)

InitSearchFilter == lastEvent = "mount" /\ SearchFilterInit /\ IdleExcept("SearchFilter")

SpecSearchFilter == InitSearchFilter /\ [][SearchFilterNext]_vars

InitFetcher == lastEvent = "mount" /\ FetcherInit /\ IdleExcept("AsyncDataFetcher")

SpecFetcher == InitFetcher /\ [][FetcherNext]_vars

InitContactForm == lastEvent = "mount" /\ ContactFormInit /\ IdleExcept("ContactForm")

SpecContactForm == InitContactForm /\ [][ContactFormNext]_vars

InitTimer == lastEvent = "mount" /\ TimerInit /\ IdleExcept("TimerComponent")

SpecTimer == InitTimer /\ [][TimerNext]_vars

\* A pending interval fires.
SpecTimerFair == SpecTimer /\ WF_vars(intervalTick)

InitTodoList == lastEvent = "mount" /\ TodoListInit /\ IdleExcept("TodoList")

SpecTodoList == InitTodoList /\ [][TodoListNext]_vars

InitValidationForm ==
    lastEvent = "mount" /\ ValidationFormInit /\ IdleExcept("ValidationForm")

SpecValidationForm == InitValidationForm /\ [][ValidationFormNext]_vars

InitStateManager ==
    lastEvent = "mount" /\ StateManagerInit /\ IdleExcept("ComplexStateManager")

SpecStateManager == InitStateManager /\ [][StateManagerNext]_vars

InitScrollList ==
    lastEvent = "mount" /\ ScrollListMounted /\ IdleExcept("InfiniteScrollList")

SpecScrollList == InitScrollList /\ [][ScrollListNext]_vars

(***************************************************************************)
(* Claims                                                                  *)
(***************************************************************************)
\* Props for which the component documents its boundaries.
CounterPropsOk == step > 0 /\ min <= initialCount /\ initialCount <= max

\* C5: for step > 0 and min <= initialCount <= max the count always stays in
\* [min, max]; an increment that would pass max leaves the count at max and a
\* decrement that would pass min leaves it at min.
C5_CounterBounds ==
    CounterPropsOk =>
        /\ min <= count /\ count <= max
        /\ (lastEvent = "increment" /\ countBefore + step > max) => count = max
        /\ (lastEvent = "decrement" /\ countBefore - step < min) => count = min

C5_Witness ==
    /\ CounterPropsOk
    /\ lastEvent = "increment"
    /\ countBefore + step > max
    /\ countBefore < max
    /\ count = max

\* C6 (as stated): every click on the enabled increment button raises the
\* count by exactly step.
C6_IncrementAddsStep ==
    lastEvent = "increment" => count = countBefore + step

\* C6 (amended): a click on the enabled increment button raises the count by
\* step, except that a click that would pass max sets the count to max.
C6_IncrementAddsStepOrClamps ==
    lastEvent = "increment" =>
        /\ countBefore < max
        /\ count = (IF countBefore + step > max THEN max ELSE countBefore + step)

C6_Witness ==
    /\ lastEvent = "increment"
    /\ step > 1
    /\ countBefore + step > max
    /\ count = max
    /\ count - countBefore < step

\* The fetch made by the effect of the current render (the last one), while
\* the component is mounted.
IsCurrentFetch(i) == ulMounted /\ i = Len(fetches)

\* C3: the component starts in the loading state; when the fetch for the
\* current apiUrl resolves it leaves loading and shows 'N users found' with one
\* card per returned user; when it rejects it leaves loading and shows
\* 'Error: <message>' with a Retry button; loading, error view and user list
\* are never shown together.
C3_UserListLifecycle ==
    /\ lastEvent = "mount" => showsLoading
    /\ (lastEvent = "fetchResolved" /\ IsCurrentFetch(ulSettled.fetch)) =>
          /\ ~showsLoading
          /\ showsUserList
          /\ shownUserCount = Len(ulSettled.value.users)
          /\ shownUserCards =
                { ulSettled.value.users[k] : k \in 1 .. Len(ulSettled.value.users) }
    /\ (lastEvent = "fetchRejected" /\ IsCurrentFetch(ulSettled.fetch)) =>
          /\ ~showsLoading
          /\ showsError
          /\ showsRetryButton
          /\ ulSettled.value.isError => ulError = ulSettled.value.message
    /\ ~(showsLoading /\ showsError)
    /\ ~(showsLoading /\ showsUserList)
    /\ ~(showsError /\ showsUserList)
    /\ showsLoading \/ showsError \/ showsUserList

\* A rejection is displayed although an earlier fetch had delivered users.
C3_Witness ==
    /\ lastEvent = "fetchRejected"
    /\ IsCurrentFetch(ulSettled.fetch)
    /\ ulSettled.value.isError
    /\ Len(users) > 0
    /\ showsError /\ ~showsUserList

\* C4: a fetch superseded by an apiUrl change or an unmount is aborted and its
\* response never changes users, error or loading; an apiUrl change issues
\* exactly one new fetch with the new URL; what is displayed once loading ends
\* comes from the fetch for the current apiUrl.
C4_UserListCancellation ==
    /\ \A i \in 1 .. Len(fetches) :
          (~IsCurrentFetch(i) /\ fetches[i].status = "pending") => fetches[i].aborted
    /\ (lastEvent \in {"fetchResolved", "fetchRejected"}
            /\ ~IsCurrentFetch(ulSettled.fetch)) =>
          /\ users = ulBefore.users
          /\ ulError = ulBefore.error
          /\ ulLoading = ulBefore.loading
    /\ lastEvent = "apiUrlChange" =>
          /\ Len(fetches) = ulBefore.nFetches + 1
          /\ apiUrl # ulBefore.apiUrl
          /\ fetches[Len(fetches)].url = apiUrl
          /\ fetches[Len(fetches)].status = "pending"
    /\ (ulMounted /\ ~ulLoading) =>
          /\ ulShownFrom = Len(fetches)
          /\ fetches[ulShownFrom].url = apiUrl
          /\ showsUserList =>
                /\ fetches[ulShownFrom].status = "resolved"
                /\ users = fetches[ulShownFrom].value.users
          /\ showsError =>
                /\ fetches[ulShownFrom].status = "rejected"
                /\ fetches[ulShownFrom].value.isError =>
                      ulError = fetches[ulShownFrom].value.message

\* The response of a superseded fetch arrives after the response of the current
\* one, with other data, and is ignored.
C4_Witness ==
    /\ lastEvent = "fetchResolved"
    /\ ulMounted
    /\ ulSettled.fetch < Len(fetches)
    /\ ~ulLoading /\ showsUserList
    /\ users # ulSettled.value.users
    /\ fetches[Len(fetches)].url # fetches[ulSettled.fetch].url


\* The last step called searchAPI.searchProducts.
SearchIssued ==
    lastEvent \in {"debounceFired", "retrySearch"} /\ sfLastIssue.origin # "none"

\* Every change of query or filters leaves exactly one timeout pending, newly
\* started; at most one timeout is pending at any time; the changes made since
\* the last search have led to at most one search by the debounce timeout.
DebounceTimerDiscipline ==
    /\ lastEvent \in {"queryChange", "filterChange", "clearAll"} =>
          /\ Len(sfTimers) = 1
          /\ sfTimers[1].remaining = debounceMs
          /\ sfTimers[1].query = query
          /\ sfTimers[1].filters = filters
    /\ Len(sfTimers) <= 1
    /\ searchesSinceChange <= 1

GaveUpAfterInitialFailure ==
    /\ adfMounted /\ ~adfUserActed
    /\ adfTimers = <<>>
    /\ \A c \in 1 .. Len(adfRequests) : adfRequests[c].status = "failed"

\* The automatic retries made for the failure of request r, in order.
AutomaticRetriesOf(r) ==
    SelectSeq(adfRequests, LAMBDA q : q.isRetry /\ q.root = r)

\* C2: when fetches keep failing the fetcher re-attempts automatically, waiting
\* 1000*2^n ms before automatic retry n+1, until retryAttempts automatic retries
\* have been made, and never makes more than retryAttempts of them for one
\* initial failure; with retryAttempts = 0 it makes none.
C2_RetryWithBackoff ==
    /\ \A r \in 1 .. Len(adfRequests) :
          Len(AutomaticRetriesOf(r)) <= retryAttempts
    /\ GaveUpAfterInitialFailure =>
          /\ Len(AutomaticRetriesOf(1)) = retryAttempts
          /\ \A n \in 1 .. Len(AutomaticRetriesOf(1)) :
                AutomaticRetriesOf(1)[n].delay = BackoffBaseMs * (2 ^ (n - 1))

\* The validation rules as the specification words them.
NameFails(value) == Trim(value) = <<>> \/ Len(Trim(value)) < 2
EmailFails(value) == Trim(value) = <<>> \/ ~emailPattern(value)
MessageFails(value) == Trim(value) = <<>> \/ Len(Trim(value)) < 10
AnyFieldFails(fd) == NameFails(fd.name) \/ EmailFails(fd.email) \/ MessageFails(fd.message)

\* C7 - ContactForm accepted submission: a submit with three passing fields
\* puts the form in the submitting state (button disabled, "Sending...") with
\* one 1000 ms timeout pending; when the timeout has run the success view is
\* shown, onSubmit has been called exactly once for that submission and with
\* the values the fields had at the click, and the fields are empty; Send
\* Another Message then shows an empty form with an enabled button.
C7_AcceptedSubmission ==
    /\ (lastEvent = "submit" /\ ~AnyFieldFails(cfClicked)) =>
          /\ isSubmitting /\ submitDisabled /\ submitLabel = "Sending..."
          /\ Len(cfTimers) = 1 /\ cfTimers[1].delay = 1000
          /\ onSubmitCalls = cfBefore.calls
    /\ lastEvent = "submitDone" =>
          /\ showsSuccess /\ ~isSubmitting
          /\ cfTimers = <<>>
          /\ onSubmitCalls = cfBefore.calls + 1 /\ onSubmitCalls = cfAccepted
          /\ onSubmitArg = cfClicked /\ ~AnyFieldFails(onSubmitArg)
          /\ formData = EmptyForm
    /\ lastEvent = "sendAnother" =>
          /\ showsForm /\ formData = EmptyForm
          /\ ~submitDisabled /\ submitLabel = "Send Message"
          /\ onSubmitCalls = cfAccepted

C7_Witness ==
    /\ lastEvent = "sendAnother"
    /\ onSubmitCalls = 1
    /\ onSubmitArg = [name |-> <<"a", "b">>, email |-> <<" ", "a", "@", "b", ".", "c">>,
                      message |-> <<"a", "b", "c", "d", "e", "f", "g", "h", "i", "j">>]

\* C8 - ContactForm rejected submission: after a submit with a failing field,
\* every failing field carries its matching message, the form is not
\* submitting, no timeout is pending or was started, onSubmit was not called
\* and the field values are those of the click.
C8_RejectedSubmission ==
    (lastEvent = "submit" /\ AnyFieldFails(cfClicked)) =>
        /\ NameFails(cfClicked.name) =>
              errors.name = IF Trim(cfClicked.name) = <<>> THEN "Name is required"
                            ELSE "Name must be at least 2 characters"
        /\ EmailFails(cfClicked.email) =>
              errors.email = IF Trim(cfClicked.email) = <<>> THEN "Email is required"
                             ELSE "Please enter a valid email address"
        /\ MessageFails(cfClicked.message) =>
              errors.message = IF Trim(cfClicked.message) = <<>> THEN "Message is required"
                               ELSE "Message must be at least 10 characters"
        /\ ~isSubmitting /\ ~cfBefore.isSubmitting
        /\ cfTimers = <<>> /\ cfBefore.timers = 0
        /\ onSubmitCalls = cfBefore.calls
        /\ formData = cfClicked

C8_Witness ==
    /\ lastEvent = "submit"
    /\ cfClicked = [name |-> <<" ", "a">>, email |-> <<"a", "@", "b">>,
                    message |-> <<" ", "a", "b", "c", "d", "e", "f", "g", "h", "i", " ">>]
    /\ errors.name = "Name must be at least 2 characters"
    /\ errors.email = "Please enter a valid email address"
    /\ errors.message = "Message must be at least 10 characters"
    /\ onSubmitCalls = 1

\* C9 - TimerComponent countdown: with initialTime >= 1, every tick lowers
\* timeLeft by exactly 1 and calls onTick once, with the new value; timeLeft
\* never goes below 0 and onTimeUp is not called before it is 0; the tick
\* that reaches 0 stops the timer, makes the status "completed" and calls
\* onTimeUp exactly once; a run that was never paused has then made exactly
\* initialTime onTick calls.
C9_TimerCountdown ==
    initialTime >= 1 =>
        /\ timeLeft >= 0
        /\ timeLeft > 0 => tmRun.timeUps = 0
        /\ lastEvent = "tick" =>
              /\ timeLeft = tmBefore.timeLeft - 1
              /\ tmRun.ticks = Append(tmBefore.run.ticks, timeLeft)
        /\ (lastEvent = "tick" /\ timeLeft = 0) =>
              /\ ~isRunning
              /\ intervalRef = Null
              /\ getTimerStatus = "completed"
              /\ tmRun.timeUps = 1 /\ tmBefore.run.timeUps = 0
              /\ ~tmRun.paused => Len(tmRun.ticks) = initialTime

C9_Witness ==
    /\ initialTime = 3
    /\ lastEvent = "tick"
    /\ timeLeft = 0
    /\ tmRun = [ticks |-> <<2, 1, 0>>, timeUps |-> 1, paused |-> FALSE]
    /\ getTimerStatus = "completed"
    /\ tmStarts = 2

\* C10 - TodoList statistics: in every state the displayed Total is the
\* number of todos, Completed the number of todos with completed = true, and
\* Active is Total minus Completed (the number of todos not completed); none
\* is negative; a filter change leaves all three as they were.
C10_TodoStatistics ==
    /\ stats.total = Cardinality(DOMAIN todos)
    /\ stats.completed = Cardinality({ i \in DOMAIN todos : todos[i].completed })
    /\ stats.active = stats.total - stats.completed
    /\ stats.active = Cardinality({ i \in DOMAIN todos : ~todos[i].completed })
    /\ stats.total >= 0 /\ stats.completed >= 0 /\ stats.active >= 0
    /\ lastEvent = "setFilter" => stats = tdBefore.stats /\ todos = tdBefore.todos

C10_Witness ==
    /\ lastEvent = "setFilter"
    /\ tdBefore.filter = "all"
    /\ filter = "completed"
    /\ Len(filteredTodos) = 1
    /\ stats = [total |-> 2, completed |-> 1, active |-> 1]

\* C11 - TodoList add: after an add request made with a non-blank input the
\* list is the old list with one todo appended, whose text is the trimmed
\* input and whose completed flag is false, the input is empty and onTodoAdd
\* was called once, with that todo; after an add request made with an empty
\* or whitespace-only input the list and the input are as before and no
\* callback was called; the Add button is disabled exactly when the trimmed
\* input is empty.
C11_TodoAdd ==
    /\ (lastEvent = "addTodo" /\ Trim(tdBefore.inputValue) # <<>>) =>
          /\ Len(todos) = Len(tdBefore.todos) + 1
          /\ SubSeq(todos, 1, Len(todos) - 1) = tdBefore.todos
          /\ todos[Len(todos)].text = Trim(tdBefore.inputValue)
          /\ todos[Len(todos)].completed = FALSE
          /\ inputValue = <<>>
          /\ tdCallback = <<[name |-> "onTodoAdd", arg |-> todos[Len(todos)]]>>
    /\ (lastEvent = "addTodo" /\ Trim(tdBefore.inputValue) = <<>>) =>
          /\ todos = tdBefore.todos
          /\ inputValue = tdBefore.inputValue
          /\ tdCallback = <<>>
    /\ addButtonDisabled <=> (Trim(inputValue) = <<>>)

C11_Witness ==
    /\ lastEvent = "addTodo"
    /\ tdBefore.inputValue = <<" ", "b", " ">>
    /\ Len(tdBefore.todos) = 1
    /\ Len(todos) = 2
    /\ todos[2].text = <<"b">>

\* C12 - TodoList toggle and delete touch only their target: after a toggle
\* exactly one todo of the list, one with the given id, has its completed
\* flag flipped, and every other position holds the todo it held before;
\* after a delete the list is the old list without one todo of the given id;
\* each has called its callback once with that id.
C12_ToggleDeleteOnlyTarget ==
    /\ lastEvent = "toggleTodo" =>
          /\ Len(tdCallback) = 1 /\ tdCallback[1].name = "onTodoToggle"
          /\ Len(todos) = Len(tdBefore.todos)
          /\ \E i \in DOMAIN todos :
                /\ tdBefore.todos[i].id = tdCallback[1].arg
                /\ todos[i] = [tdBefore.todos[i] EXCEPT
                                  !.completed = ~tdBefore.todos[i].completed]
                /\ \A j \in DOMAIN todos \ {i} : todos[j] = tdBefore.todos[j]
    /\ lastEvent = "deleteTodo" =>
          /\ Len(tdCallback) = 1 /\ tdCallback[1].name = "onTodoDelete"
          /\ \E i \in DOMAIN tdBefore.todos :
                /\ tdBefore.todos[i].id = tdCallback[1].arg
                /\ todos = SubSeq(tdBefore.todos, 1, i - 1)
                              \o SubSeq(tdBefore.todos, i + 1, Len(tdBefore.todos))

\* The conditions of an accepted ValidationForm submission, as the
\* specification words them.
VfAcceptable(fd) ==
    /\ emailRegexTest(fd.email)
    /\ Len(fd.password) >= 6
    /\ fd.confirmPassword # <<>> /\ fd.confirmPassword = fd.password

\* C13 - ValidationForm submission: after a submit, onSubmit has been called
\* once with the email, password and confirmPassword of the form if the
\* email is well-formed, the password has at least 6 characters and
\* confirmPassword is non-empty and equal to the password; otherwise onSubmit
\* has not been called and every failing field carries its own message.
C13_ValidationFormSubmission ==
    lastEvent = "vfSubmit" =>
        /\ vfFormData = vfBefore
        /\ VfAcceptable(vfFormData) => vfOnSubmit = <<vfFormData>>
        /\ ~VfAcceptable(vfFormData) =>
              /\ vfOnSubmit = <<>>
              /\ vfFormData.email = <<>> => vfErrors.email = "Email is required"
              /\ (vfFormData.email # <<>> /\ ~emailRegexTest(vfFormData.email)) =>
                    vfErrors.email = "Please enter a valid email address"
              /\ vfFormData.password = <<>> => vfErrors.password = "Password is required"
              /\ (vfFormData.password # <<>> /\ Len(vfFormData.password) < 6) =>
                    vfErrors.password = "Password must be at least 6 characters long"
              /\ vfFormData.confirmPassword = <<>> =>
                    vfErrors.confirmPassword = "Please confirm your password"
              /\ (vfFormData.confirmPassword # <<>>
                    /\ vfFormData.confirmPassword # vfFormData.password) =>
                    vfErrors.confirmPassword = "Passwords do not match"

C13_Witness ==
    /\ lastEvent = "vfSubmit"
    /\ vfFormData = [email |-> <<"a", "@", "b", ".", "c">>, password |-> <<"a", "b", "c", "d", "e", "f">>,
                     confirmPassword |-> <<"a", "b", "c", "d", "e", "f">>]
    /\ vfOnSubmit = <<vfFormData>>

\* C14 - ValidationForm submitting state: once a valid form has been
\* submitted, some render has shown the submit button disabled with the label
\* "Submitting...", and the button is enabled again and reads "Submit".
C14_SubmittingStateShown ==
    (lastEvent = "vfSubmit" /\ VfAcceptable(vfFormData)) =>
        /\ vfShownSubmitting
        /\ ~vfSubmitDisabled /\ vfSubmitLabel = "Submit"

\* C15 - SearchFilter Clear All: right after a click on Clear All, whatever
\* state it found, the query is empty, the filters have their initial values
\* (category '', minPrice 0, maxPrice 10000, inStockOnly false), the results
\* are empty, there is no error and the search counter is 0.
C15_ClearAllResets ==
    lastEvent = "clearAll" =>
        /\ query = <<>>
        /\ filters = [category |-> "", minPrice |-> 0, maxPrice |-> 10000,
                      inStockOnly |-> FALSE]
        /\ results = <<>>
        /\ sfError = Null
        /\ searchCount = 0

C15_Witness ==
    /\ lastEvent = "clearAll"
    /\ sfBeforeClear.query = <<"m", "a">>
    /\ sfBeforeClear.filters.category = "sports"
    /\ sfBeforeClear.searchCount = 1
    /\ sfBeforeClear.error # Null
    /\ sfBeforeClear.inFlight = 0
    /\ searchCount = 0

\* C16 - SearchFilter request cancellation: a response is never handled
\* (applied to results, searchCount, error or onResultsChange) for a request
\* that had a newer request in flight.
C16_SupersededNeverApplied ==
    lastEvent \in {"searchResolved", "searchRejected"} => ~sfStaleApplied

C18_SuccessfulFetch ==
    /\ (adfMounted /\ adfRequests[Len(adfRequests)].status = "pending") =>
          refreshDisabled /\ refreshLabel = "Loading..."
    /\ (lastEvent = "fetchSucceeded" /\ adfMounted) =>
          /\ data = (IF returnEmpty THEN <<>> ELSE <<1, 2, 3, 4, 5>>)
          /\ adfError = Null
          /\ retryCount = 0
          /\ ~refreshDisabled /\ refreshLabel = "Refresh"
          /\ getStatusMessage = (IF returnEmpty THEN <<"No data available">>
                                 ELSE <<"Loaded ", 5, " users">>)
    /\ onDataLoadCalls =
          Cardinality({ c \in 1 .. Len(adfRequests) : adfRequests[c].status = "succeeded" })

\* The message the specification gives for a failing ContactForm field.
CfMessage(field, value) ==
    IF Trim(value) = <<>>
      THEN CASE field = "name" -> "Name is required"
             [] field = "email" -> "Email is required"
             [] field = "message" -> "Message is required"
      ELSE CASE field = "name" -> "Name must be at least 2 characters"
             [] field = "email" -> "Please enter a valid email address"
             [] field = "message" -> "Message must be at least 10 characters"

CfFieldFails(field, value) ==
    CASE field = "name" -> NameFails(value)
      [] field = "email" -> EmailFails(value)
      [] field = "message" -> MessageFails(value)

\* C19 - ContactForm real-time errors: whenever the form is shown, a field
\* that holds an invalid value the user has typed (a non-empty one: the
\* fields start empty) shows its validation message, whether or not a submit
\* has taken place.
C19_RealTimeErrors ==
    showsForm =>
        \A field \in {"name", "email", "message"} :
            (formData[field] # <<>> /\ CfFieldFails(field, formData[field])) =>
                errors[field] = CfMessage(field, formData[field])

\* C20 - Counter button states: in every state the increment button is
\* disabled exactly when count >= max, the decrement button is disabled
\* exactly when count <= min, and the reset button is not disabled.
C20_CounterButtonStates ==
    /\ incrementDisabled <=> (count >= max)
    /\ decrementDisabled <=> (count <= min)
    /\ ~resetDisabled

C20_Witness ==
    /\ lastEvent = "increment"
    /\ countBefore < max
    /\ count = max
    /\ min < max
    /\ incrementDisabled /\ ~decrementDisabled

\* C21 - TimerComponent stops ticking when not running: whenever the status
\* is "paused" or "completed" no interval is pending; from such a state
\* timeLeft and the onTick / onTimeUp calls stay as they are in every step
\* other than a click on Start, Restart or Reset; Pause leaves timeLeft as it
\* was, and Reset sets timeLeft to initialTime with status "paused".
C21_TimerStopsTicking ==
    /\ [](getTimerStatus # "running" => intervalRef = Null)
    /\ [][(getTimerStatus # "running" /\ lastEvent' \notin {"start", "reset"}) =>
             (timeLeft' = timeLeft /\ tmRun' = tmRun)]_vars
    /\ [](lastEvent = "pause" =>
             timeLeft = tmBefore.timeLeft /\ getTimerStatus = "paused")
    /\ [](lastEvent = "reset" =>
             timeLeft = initialTime /\ getTimerStatus = "paused")

C21_Witness ==
    /\ lastEvent = "pause"
    /\ initialTime = 3
    /\ timeLeft = 2
    /\ tmRun.ticks = <<2>>
    /\ intervalRef = Null
    /\ getTimerStatus = "paused"

\* C28 - TimerComponent state invariant: in every state 0 <= timeLeft <=
\* initialTime, the timer is not running and complete at the same time, and
\* it is complete only with timeLeft = 0.
C28_TimerStateInvariant ==
    initialTime >= 0 =>
        /\ 0 <= timeLeft /\ timeLeft <= initialTime
        /\ ~(isRunning /\ isComplete)
        /\ isComplete => timeLeft = 0

C28_Witness ==
    /\ initialTime = 2
    /\ isComplete /\ ~isRunning
    /\ timeLeft = 0
    /\ tmRun.ticks = <<1, 0>>
    /\ tmRun.paused

\* C29 - TimerComponent always finishes: a running timer reaches the status
\* "completed", with onTimeUp called, unless Pause or Reset is clicked.
C29_TimerAlwaysFinishes ==
    (initialTime >= 0 /\ getTimerStatus = "running") ~>
        \/ (getTimerStatus = "completed" /\ tmRun.timeUps = 1)
        \/ lastEvent \in {"pause", "reset"}

\* C22 - AsyncDataFetcher aborted requests are silent: a request whose
\* AbortController was aborted never sets the error state (the error is never
\* the abort message), never calls onError (onError has been called once per
\* request that failed without being aborted) and never schedules a retry (no
\* pending retry timeout was scheduled by an aborted request).
C22_AbortedRequestsSilent ==
    /\ adfError # RequestAborted
    /\ onErrorCalls =
          Cardinality({c \in 1 .. Len(adfRequests) : adfRequests[c].status = "failed"})
    /\ \A t \in 1 .. Len(adfTimers) :
          adfRequests[adfTimers[t].root].status # "aborted"

\* C27 - AsyncDataFetcher gives up visibly: when every request has failed, the
\* user has done nothing and nothing is left to run (no request pending, no
\* retry timeout scheduled), the error is set, retryCount >= retryAttempts and
\* the manual Retry button is shown.
C27_GivesUpVisibly ==
    GaveUpAfterInitialFailure =>
        /\ adfError # Null
        /\ retryCount >= retryAttempts
        /\ showsManualRetry

\* C24 - TodoList id uniqueness: the initial todos having pairwise distinct
\* ids, the todos of every state have pairwise distinct ids (two adds at one
\* clock reading included), so a toggle changes exactly one todo and a delete
\* removes exactly one.
C24_TodoIdsUnique ==
    (\A i, j \in DOMAIN initialTodos :
        initialTodos[i].id = initialTodos[j].id => i = j) =>
        /\ \A i, j \in DOMAIN todos : todos[i].id = todos[j].id => i = j
        /\ lastEvent = "toggleTodo" =>
              Cardinality({i \in DOMAIN todos : todos[i] # tdBefore.todos[i]}) = 1
        /\ lastEvent = "deleteTodo" => Len(todos) = Len(tdBefore.todos) - 1

\* C25 - SearchFilter loading indicator: in every state loading is true when
\* at least one search request is in flight (two overlapping searches and a
\* query emptied during a search included) and false when none is.
C25_LoadingIndicator ==
    sfLoading <=> (sfRequests # <<>>)

\* C26 - SearchFilter Clear All is stable: from the click on Clear All until a
\* new non-empty query is entered, results stay empty, searchCount stays 0,
\* error stays empty and onResultsChange is not called (it is called by the
\* handling of a search response only), a search in flight at the click
\* included.
C26_ClearAllStable ==
    [][(sfCleared /\ sfCleared') =>
          /\ results' = <<>>
          /\ searchCount' = 0
          /\ sfError' = Null
          /\ lastEvent' # "searchResolved"]_vars

\* C23 - ComplexStateManager notification cap: after any sequence of reducer
\* actions the notifications list holds at most 50 entries; ADD_NOTIFICATION
\* puts the new notification, unread, at the front and, when the list held 50
\* already, drops the last one, the rest keeping their order.
C23_NotificationCap ==
    /\ Len(csmState.notifications) <= 50
    /\ lastEvent = "ADD_NOTIFICATION" =>
          LET old == csmBefore.notifications
              new == csmState.notifications
          IN  /\ new # <<>>
              /\ new[1].read = FALSE
              /\ new[1].type = csmLastAction.payload.type
              /\ new[1].message = csmLastAction.payload.message
              /\ Tail(new) = (IF Len(old) = 50 THEN SubSeq(old, 1, 49) ELSE old)

C23_Witness ==
    /\ lastEvent = "ADD_NOTIFICATION"
    /\ Len(csmBefore.notifications) = 50
    /\ Len(csmState.notifications) = 50
    /\ csmLastAction.payload.read
    /\ ~csmState.notifications[1].read
    /\ csmState.notifications[2] = csmBefore.notifications[1]
    /\ csmState.notifications[50] = csmBefore.notifications[49]

\* C30 - InfiniteScrollList page loading: at most one page load is in flight;
\* the pages of items are in increasing order, none twice; a failed load
\* leaves items and currentPage as they were; once a load has returned an
\* empty page (hasMore = false) a scroll or an observer callback starts no
\* load.
C30_PageLoading ==
    /\ Cardinality({i \in 1 .. Len(islRequests) :
                       islRequests[i].status = "pending"}) <= 1
    /\ \A i, j \in 1 .. Len(islItems) : i < j => islItems[i] < islItems[j]
    /\ lastEvent = "loadRejected" =>
          islItems = islBefore.items /\ currentPage = islBefore.currentPage
    /\ (lastEvent \in {"handleScroll", "observer"} /\ ~islBefore.hasMore) =>
          Len(islRequests) = islBefore.loads

====
